---------------------------- MODULE Spec2Model ----------------------------
(***************************************************************************)
(* LifeLine emergency transceiver: the transmitter firmware                *)
(* (hardware/lifeline_tx_pro) and the receiver firmware                    *)
(* (hardware/lifeline_rx_pro) as state machines.                           *)
(*                                                                         *)
(* Each firmware is one cooperative loop.  One action of the model is one  *)
(* iteration of loop(), with the handlers it calls composed in the order   *)
(* the code calls them.  The inputs of an iteration (key, radio payload,   *)
(* button level, HTTP request, outcome of a radio send or a WiFi connect)  *)
(* are drawn from small sets.                                              *)
(*                                                                         *)
(* Strings are sequences of one-character strings, so that indexOf,        *)
(* substring, trim, toInt and sprintf are computed as the code computes    *)
(* them.                                                                   *)
(*                                                                         *)
(* Time.  The code compares millis() - start with a threshold.  A timer    *)
(* of the model holds the largest threshold the elapsed time is known to   *)
(* have reached (0 when none); passing time moves running timers to their  *)
(* next threshold.  A timer whose start the code will overwrite before it   *)
(* reads it again (a stopped timer) holds 0.  Write-only timestamps (lastKeyPressTime,               *)
(* lastTransmitTime, AlertRecord.timestamp) and the animation counters     *)
(* (bootDotState, pulseState, lastPulseTime) are never read by the control *)
(* logic and are left out, as are the transmitter's previousScreen and the *)
(* receiver's loraInitialized, which are written and never read.           *)
(***************************************************************************)
EXTENDS Integers, Sequences, FiniteSets, TLC

VARIABLES
    tx,        \* transmitter globals (lifeline_tx_pro.ino:355-391)
    txIo,      \* the key the last transmitter step consumed and what it sent
    rx,        \* receiver globals (lifeline_rx_pro.ino:339-396)
    nvs,       \* receiver Preferences namespace "lifeline"
    rxIn,      \* the inputs the last receiver iteration consumed
    rxOut,     \* what the last receiver iteration sent outward
    codec,     \* encode/decode harness: input, wire packet, decoded output
    pushed     \* history harness: every record given to addToHistory, in order

vars == <<tx, txIo, rx, nvs, rxIn, rxOut, codec, pushed>>

-----------------------------------------------------------------------------
(* Characters and Arduino String primitives                                *)

\* The characters the firmware's parsers distinguish, with their ASCII codes.
Digits == <<"0", "1", "2", "3", "4", "5", "6", "7", "8", "9">>

Upper ==
    <<"A", "B", "C", "D", "E", "F", "G", "H", "I", "J", "K", "L", "M",
      "N", "O", "P", "Q", "R", "S", "T", "U", "V", "W", "X", "Y", "Z">>

Lower ==
    <<"a", "b", "c", "d", "e", "f", "g", "h", "i", "j", "k", "l", "m",
      "n", "o", "p", "q", "r", "s", "t", "u", "v", "w", "x", "y", "z">>

Punct == {<<" ", 32>>, <<"#", 35>>, <<"*", 42>>, <<"+", 43>>, <<",", 44>>,
          <<"-", 45>>, <<"?", 63>>}

AsciiPairs ==
    Punct \cup {<<Digits[i], 47 + i>> : i \in 1..10}
          \cup {<<Upper[i], 64 + i>> : i \in 1..26}
          \cup {<<Lower[i], 96 + i>> : i \in 1..26}

AsciiSet == {p[1] : p \in AsciiPairs}

OrdTable == [c \in AsciiSet |-> (CHOOSE p \in AsciiPairs : p[1] = c)[2]]

ChrTable == [n \in {p[2] : p \in AsciiPairs} |-> (CHOOSE p \in AsciiPairs : p[2] = n)[1]]

Ord(c) == OrdTable[c]

Chr(n) == ChrTable[n]

IsDigit(c) == Ord(c) >= Ord("0") /\ Ord(c) <= Ord("9")

IsSpace(c) == c = " "

\* String::indexOf(ch): 0-based index of the first occurrence, -1 if none.
IndexOf(s, c) ==
    IF \E i \in 1..Len(s) : s[i] = c
    THEN (CHOOSE i \in 1..Len(s) : s[i] = c /\ \A j \in 1..(i - 1) : s[j] # c) - 1
    ELSE -1

\* String::substring(from, to): characters from..to-1 (0-based).
Substring(s, from, to) == SubSeq(s, from + 1, to)

\* String::substring(from): the rest of the string.
SubstringFrom(s, from) == SubSeq(s, from + 1, Len(s))

\* String::startsWith(prefix)
StartsWith(s, p) == Len(s) >= Len(p) /\ SubSeq(s, 1, Len(p)) = p

RECURSIVE TrimLeft(_)
TrimLeft(s) == IF s # <<>> /\ IsSpace(Head(s)) THEN TrimLeft(Tail(s)) ELSE s

RECURSIVE TrimRight(_)
TrimRight(s) ==
    IF s # <<>> /\ IsSpace(s[Len(s)]) THEN TrimRight(SubSeq(s, 1, Len(s) - 1)) ELSE s

\* String::trim()
Trim(s) == TrimRight(TrimLeft(s))

RECURSIVE DigitsValue(_, _)
DigitsValue(s, acc) ==
    IF s # <<>> /\ IsDigit(Head(s))
    THEN DigitsValue(Tail(s), 10 * acc + (Ord(Head(s)) - Ord("0")))
    ELSE acc

\* String::toInt() is atol(): leading blanks, an optional sign, then digits up
\* to the first non-digit; 0 when there is no digit.  (Strings of the model
\* are short enough that a long never overflows.)
ToInt(s) ==
    LET t == TrimLeft(s)
    IN  IF t = <<>> THEN 0
        ELSE IF Head(t) = "-" THEN 0 - DigitsValue(Tail(t), 0)
        ELSE IF Head(t) = "+" THEN DigitsValue(Tail(t), 0)
        ELSE DigitsValue(t, 0)

RECURSIVE DecimalDigits(_)
DecimalDigits(n) ==
    IF n < 10 THEN <<Chr(Ord("0") + n)>>
    ELSE Append(DecimalDigits(n \div 10), Chr(Ord("0") + (n % 10)))

\* sprintf %03d for a non-negative value: at least three digits, zero-padded.
Pad3(n) ==
    LET d == DecimalDigits(n)
    IN  IF Len(d) >= 3 THEN d
        ELSE IF Len(d) = 2 THEN <<"0">> \o d
        ELSE <<"0", "0">> \o d

-----------------------------------------------------------------------------
(* Alert catalog (the same table in both firmwares)                        *)

ALERT_COUNT == 15

\* 0=CRITICAL, 1=HIGH, 2=MEDIUM, 3=OK, 4=NEUTRAL; index i+1 holds alert i.
alertPriority == <<0, 0, 2, 0, 3, 1, 2, 2, 2, 1, 1, 1, 1, 2, 4>>

\* Faulty variant: the last catalog entry has no letter.
getAlertCode_ShortCatalog(index) ==
    IF index >= 0 /\ index < ALERT_COUNT - 1 THEN Chr(Ord("A") + index) ELSE "X"

\* Transmitter: the letter sent for an alert index, 'X' when out of range.
getAlertCode(index) ==
    IF index >= 0 /\ index < ALERT_COUNT THEN Chr(Ord("A") + index) ELSE "X"

-----------------------------------------------------------------------------
(* Time                                                                    *)

\* The next threshold of T above t, or t when every threshold is reached.
NextThreshold(t, T) ==
    IF \E x \in T : x > t
    THEN CHOOSE x \in T : x > t /\ \A y \in T : y > t => x <= y
    ELSE t

-----------------------------------------------------------------------------
(* Transmitter: lifeline_tx_pro.ino                                        *)

TX_DEVICE_ID == 3

VISIBLE_MENU_ITEMS == 5

MANUAL_TOTAL_PAGES == 4

TX_BOOT_DISPLAY_TIME == 1000

RESULT_SUCCESS_TIME == 1800

MAX_RETRY_ATTEMPTS == 3

\* Bound of the model: send attempts in one run.
MaxTransmissions == 3

TxScreens == {"SCREEN_BOOT", "SCREEN_MENU", "SCREEN_CONFIRM", "SCREEN_SENDING",
              "SCREEN_RESULT", "SCREEN_SYSTEM_INFO", "SCREEN_USER_MANUAL"}

\* '\0': no key.
NoKey == ""

\* The 4x4 keypad layout.
KeypadKeys == {"1", "2", "3", "A", "4", "5", "6", "B",
               "7", "8", "9", "C", "*", "0", "#", "D"}

\* First characters of a serial line that the model feeds to readSerialKey.
SerialChars == {"a", "s", "X", "z"}

Min(a, b) == IF a < b THEN a ELSE b

Max(a, b) == IF a > b THEN a ELSE b

\* Arduino constrain(x, lo, hi)
Constrain(x, lo, hi) == IF x < lo THEN lo ELSE IF x > hi THEN hi ELSE x

\* The transmitter's globals after setup() has run.
TxAfterSetup(loraOk) ==
    [currentScreen |-> "SCREEN_BOOT",
     selectedAlertIndex |-> 0,
     menuScrollOffset |-> 0,
     manualPage |-> 0,
     bootElapsed |-> 0,
     resultElapsed |-> 0,
     lastTransmitSuccess |-> FALSE,
     retryCount |-> 0,
     totalTransmissions |-> 0,
     successfulTransmissions |-> 0,
     loraInitialized |-> loraOk,
     ledGreen |-> FALSE,
     ledRed |-> FALSE]

\* readSerialKey(): c is the first character read, NoKey when none is waiting.
readSerialKey(c) ==
    IF c = NoKey THEN NoKey
    ELSE LET c1 == IF Ord(c) >= Ord("a") /\ Ord(c) <= Ord("d") THEN Chr(Ord(c) - 32) ELSE c
             c2 == IF c1 = "s" \/ c1 = "S" THEN "*" ELSE c1
             c3 == IF c2 = "x" \/ c2 = "X" THEN "#" ELSE c2
         IN  IF \/ (Ord(c3) >= Ord("0") /\ Ord(c3) <= Ord("9"))
                \/ (Ord(c3) >= Ord("A") /\ Ord(c3) <= Ord("D"))
                \/ c3 = "*" \/ c3 = "#"
             THEN c3
             ELSE NoKey

updateMenuScroll(s) ==
    LET o1 == IF s.selectedAlertIndex < s.menuScrollOffset
              THEN s.selectedAlertIndex
              ELSE IF s.selectedAlertIndex >= s.menuScrollOffset + VISIBLE_MENU_ITEMS
                   THEN s.selectedAlertIndex - VISIBLE_MENU_ITEMS + 1
                   ELSE s.menuScrollOffset
    IN  [s EXCEPT !.menuScrollOffset =
            Constrain(o1, 0, Max(0, ALERT_COUNT - VISIBLE_MENU_ITEMS))]

clearAllLEDs(s) == [s EXCEPT !.ledGreen = FALSE, !.ledRed = FALSE]

\* drawResultScreen(): besides drawing, sets the LEDs and restarts the result timer.
drawResultScreen(s) ==
    [s EXCEPT !.ledGreen = s.lastTransmitSuccess,
              !.ledRed = ~s.lastTransmitSuccess,
              !.resultElapsed = 0]

\* Faulty variant: the separator is left out of the packet.
EncodePacket_NoComma(deviceId, alertIndex) ==
    <<"T", "X">> \o Pad3(deviceId) \o <<getAlertCode(alertIndex)>>

\* The wire packet: sprintf(packet, "TX%03d,%c", DEVICE_ID, alertCode).
EncodePacket(deviceId, alertIndex) ==
    <<"T", "X">> \o Pad3(deviceId) \o <<",", getAlertCode(alertIndex)>>

\* Faulty variant: the packet is sent whether or not the radio was initialised.
transmitAlert_NoInitCheck(s, endPacketOk) ==
    [s |-> [s EXCEPT !.totalTransmissions = @ + 1,
                     !.successfulTransmissions = IF endPacketOk THEN @ + 1 ELSE @],
     ok |-> endPacketOk,
     air |-> <<EncodePacket(TX_DEVICE_ID, s.selectedAlertIndex)>>]

\* transmitAlert(): endPacketOk is what LoRa.endPacket() returns.  The result is
\* the new globals, the value returned, and the packets put on the air.
transmitAlert(s, endPacketOk) ==
    IF ~s.loraInitialized
    THEN [s |-> s, ok |-> FALSE, air |-> <<>>]
    ELSE [s |-> [s EXCEPT !.totalTransmissions = @ + 1,
                          !.successfulTransmissions = IF endPacketOk THEN @ + 1 ELSE @],
          ok |-> endPacketOk,
          air |-> <<EncodePacket(TX_DEVICE_ID, s.selectedAlertIndex)>>]

\* A handler's result: the globals, the packets put on the air, and the
\* outcome of each call of transmitAlert it made.
Quiet(s) == [s |-> s, air |-> <<>>, attempts |-> <<>>]

\* previousScreen = SCREEN_MENU; currentScreen = SCREEN_CONFIRM; drawConfirmScreen()
ToConfirm(s) == [s EXCEPT !.currentScreen = "SCREEN_CONFIRM"]

\* Faulty variant: digit d selects the entry of index d.
handleMenuInput_DigitIsIndex(s, key) ==
    IF key \in {"0", "1", "2", "3", "4", "5", "6", "7", "8", "9"}
    THEN ToConfirm([s EXCEPT !.selectedAlertIndex = Ord(key) - Ord("0")])
    ELSE IF key = "A"
    THEN updateMenuScroll([s EXCEPT !.selectedAlertIndex =
             IF @ > 0 THEN @ - 1 ELSE ALERT_COUNT - 1])
    ELSE IF key = "B"
    THEN updateMenuScroll([s EXCEPT !.selectedAlertIndex =
             IF @ < ALERT_COUNT - 1 THEN @ + 1 ELSE 0])
    ELSE IF key = "*"
    THEN ToConfirm(s)
    ELSE IF key = "C"
    THEN [s EXCEPT !.currentScreen = "SCREEN_SYSTEM_INFO"]
    ELSE IF key = "D"
    THEN [s EXCEPT !.manualPage = 0, !.currentScreen = "SCREEN_USER_MANUAL"]
    ELSE s

\* Faulty variant: the selection stops at the ends of the list.
handleMenuInput_NoWrap(s, key) ==
    IF key \in {"1", "2", "3", "4", "5", "6", "7", "8", "9"}
    THEN ToConfirm([s EXCEPT !.selectedAlertIndex = Ord(key) - Ord("1")])
    ELSE IF key = "0"
    THEN ToConfirm([s EXCEPT !.selectedAlertIndex = 9])
    ELSE IF key = "A"
    THEN updateMenuScroll([s EXCEPT !.selectedAlertIndex = IF @ > 0 THEN @ - 1 ELSE @])
    ELSE IF key = "B"
    THEN updateMenuScroll([s EXCEPT !.selectedAlertIndex =
             IF @ < ALERT_COUNT - 1 THEN @ + 1 ELSE @])
    ELSE IF key = "*"
    THEN ToConfirm(s)
    ELSE IF key = "C"
    THEN [s EXCEPT !.currentScreen = "SCREEN_SYSTEM_INFO"]
    ELSE IF key = "D"
    THEN [s EXCEPT !.manualPage = 0, !.currentScreen = "SCREEN_USER_MANUAL"]
    ELSE s

handleMenuInput(s, key) ==
    IF key \in {"1", "2", "3", "4", "5", "6", "7", "8", "9"}
    THEN LET targetIndex == Ord(key) - Ord("1")
         IN  IF targetIndex < ALERT_COUNT
             THEN ToConfirm([s EXCEPT !.selectedAlertIndex = targetIndex])
             ELSE s
    ELSE IF key = "0" /\ 9 < ALERT_COUNT
    THEN ToConfirm([s EXCEPT !.selectedAlertIndex = 9])
    ELSE IF key = "A"
    THEN updateMenuScroll([s EXCEPT !.selectedAlertIndex =
             IF @ > 0 THEN @ - 1 ELSE ALERT_COUNT - 1])
    ELSE IF key = "B"
    THEN updateMenuScroll([s EXCEPT !.selectedAlertIndex =
             IF @ < ALERT_COUNT - 1 THEN @ + 1 ELSE 0])
    ELSE IF key = "*"
    THEN ToConfirm(s)
    ELSE IF key = "C"
    THEN [s EXCEPT !.currentScreen = "SCREEN_SYSTEM_INFO"]
    ELSE IF key = "D"
    THEN [s EXCEPT !.manualPage = 0, !.currentScreen = "SCREEN_USER_MANUAL"]
    ELSE s

\* Faulty variant: the cancel key sends the alert before returning to the menu.
handleConfirmInput_CancelSends(s, key, endPacketOk) ==
    IF key = "*" \/ key = "#"
    THEN LET t == transmitAlert([s EXCEPT !.currentScreen = "SCREEN_SENDING"], endPacketOk)
         IN  [s |-> IF key = "#"
                    THEN [t.s EXCEPT !.currentScreen = "SCREEN_MENU"]
                    ELSE drawResultScreen([t.s EXCEPT !.lastTransmitSuccess = t.ok,
                                                      !.retryCount = 0,
                                                      !.currentScreen = "SCREEN_RESULT"]),
              air |-> t.air,
              attempts |-> <<t.ok>>]
    ELSE Quiet(s)

handleConfirmInput(s, key, endPacketOk) ==
    IF key = "*"
    THEN LET t == transmitAlert([s EXCEPT !.currentScreen = "SCREEN_SENDING"], endPacketOk)
         IN  [s |-> drawResultScreen([t.s EXCEPT !.lastTransmitSuccess = t.ok,
                                                 !.retryCount = 0,
                                                 !.currentScreen = "SCREEN_RESULT"]),
              air |-> t.air,
              attempts |-> <<t.ok>>]
    ELSE IF key = "#"
    THEN Quiet([s EXCEPT !.currentScreen = "SCREEN_MENU"])
    ELSE Quiet(s)

\* Faulty variant: the retry key always sends again.
handleResultInput_NoBound(s, key, endPacketOk) ==
    IF s.lastTransmitSuccess
    THEN Quiet([clearAllLEDs(s) EXCEPT !.currentScreen = "SCREEN_MENU"])
    ELSE IF key = "*"
    THEN LET s1 == [clearAllLEDs([s EXCEPT !.retryCount =
                                     Min(@ + 1, MAX_RETRY_ATTEMPTS - 1)])
                       EXCEPT !.currentScreen = "SCREEN_SENDING"]
             t == transmitAlert(s1, endPacketOk)
         IN  [s |-> drawResultScreen([t.s EXCEPT !.lastTransmitSuccess = t.ok,
                                                 !.currentScreen = "SCREEN_RESULT"]),
              air |-> t.air,
              attempts |-> <<t.ok>>]
    ELSE IF key = "#"
    THEN Quiet([clearAllLEDs(s) EXCEPT !.retryCount = 0, !.currentScreen = "SCREEN_MENU"])
    ELSE Quiet(s)

\* Faulty variant: a retry is allowed while retryCount < MAX_RETRY_ATTEMPTS.
handleResultInput_OneMore(s, key, endPacketOk) ==
    IF s.lastTransmitSuccess
    THEN Quiet([clearAllLEDs(s) EXCEPT !.currentScreen = "SCREEN_MENU"])
    ELSE IF key = "*"
    THEN IF s.retryCount < MAX_RETRY_ATTEMPTS
         THEN LET s1 == [clearAllLEDs([s EXCEPT !.retryCount = @ + 1])
                            EXCEPT !.currentScreen = "SCREEN_SENDING"]
                  t == transmitAlert(s1, endPacketOk)
              IN  [s |-> drawResultScreen([t.s EXCEPT !.lastTransmitSuccess = t.ok,
                                                      !.currentScreen = "SCREEN_RESULT"]),
                   air |-> t.air,
                   attempts |-> <<t.ok>>]
         ELSE Quiet(s)
    ELSE IF key = "#"
    THEN Quiet([clearAllLEDs(s) EXCEPT !.retryCount = 0, !.currentScreen = "SCREEN_MENU"])
    ELSE Quiet(s)

handleResultInput(s, key, endPacketOk) ==
    IF s.lastTransmitSuccess
    THEN Quiet([clearAllLEDs(s) EXCEPT !.currentScreen = "SCREEN_MENU"])
    ELSE IF key = "*"
    THEN IF s.retryCount < MAX_RETRY_ATTEMPTS - 1
         THEN LET s1 == [clearAllLEDs([s EXCEPT !.retryCount = @ + 1])
                            EXCEPT !.currentScreen = "SCREEN_SENDING"]
                  t == transmitAlert(s1, endPacketOk)
              IN  [s |-> drawResultScreen([t.s EXCEPT !.lastTransmitSuccess = t.ok,
                                                      !.currentScreen = "SCREEN_RESULT"]),
                   air |-> t.air,
                   attempts |-> <<t.ok>>]
         ELSE Quiet(s)
    ELSE IF key = "#"
    THEN Quiet([clearAllLEDs(s) EXCEPT !.retryCount = 0, !.currentScreen = "SCREEN_MENU"])
    ELSE Quiet(s)

handleSystemInfoInput(s, key) == [s EXCEPT !.currentScreen = "SCREEN_MENU"]

\* Faulty variant: the next key turns the page on the last page too.
handleUserManualInput_NoLastPage(s, key) ==
    IF key = "A" /\ s.manualPage > 0
    THEN [s EXCEPT !.manualPage = @ - 1]
    ELSE IF key = "B"
    THEN [s EXCEPT !.manualPage = @ + 1]
    ELSE IF key = "#" \/ key = "*"
    THEN [s EXCEPT !.currentScreen = "SCREEN_MENU"]
    ELSE s

handleUserManualInput(s, key) ==
    IF key = "A" /\ s.manualPage > 0
    THEN [s EXCEPT !.manualPage = @ - 1]
    ELSE IF key = "B" /\ s.manualPage < MANUAL_TOTAL_PAGES - 1
    THEN [s EXCEPT !.manualPage = @ + 1]
    ELSE IF key = "#" \/ key = "*"
    THEN [s EXCEPT !.currentScreen = "SCREEN_MENU"]
    ELSE s

handleKeyPress(s, key, endPacketOk) ==
    IF key = NoKey THEN Quiet(s)
    ELSE CASE s.currentScreen = "SCREEN_MENU" -> Quiet(handleMenuInput(s, key))
           [] s.currentScreen = "SCREEN_CONFIRM" -> handleConfirmInput(s, key, endPacketOk)
           [] s.currentScreen = "SCREEN_RESULT" -> handleResultInput(s, key, endPacketOk)
           [] s.currentScreen = "SCREEN_SYSTEM_INFO" -> Quiet(handleSystemInfoInput(s, key))
           [] s.currentScreen = "SCREEN_USER_MANUAL" -> Quiet(handleUserManualInput(s, key))
           [] OTHER -> Quiet(s)

\* keypad.getKey(), and readSerialKey() when the keypad gave no key.
ReadKey(keypadKey, serialChar) ==
    IF keypadKey # NoKey THEN keypadKey ELSE readSerialKey(serialChar)

\* loop(), SCREEN_RESULT: the timed return to the menu after a success.
ResultTimeout(s) ==
    IF s.lastTransmitSuccess /\ RESULT_SUCCESS_TIME > 0
       /\ s.resultElapsed >= RESULT_SUCCESS_TIME
    THEN [clearAllLEDs(s) EXCEPT !.currentScreen = "SCREEN_MENU"]
    ELSE s

\* Faulty variant: the success result never times out.
TxLoopBody_NoTimeout(s, keypadKey, serialChar, endPacketOk) ==
    CASE s.currentScreen = "SCREEN_BOOT" ->
            IF s.bootElapsed >= TX_BOOT_DISPLAY_TIME
            THEN Quiet([s EXCEPT !.currentScreen = "SCREEN_MENU"])
            ELSE Quiet(s)
      [] s.currentScreen = "SCREEN_SENDING" -> Quiet(s)
      [] OTHER -> handleKeyPress(s, ReadKey(keypadKey, serialChar), endPacketOk)

\* Faulty variant: the result times out whether or not the send succeeded.
TxLoopBody_TimeoutAlways(s, keypadKey, serialChar, endPacketOk) ==
    CASE s.currentScreen = "SCREEN_BOOT" ->
            IF s.bootElapsed >= TX_BOOT_DISPLAY_TIME
            THEN Quiet([s EXCEPT !.currentScreen = "SCREEN_MENU"])
            ELSE Quiet(s)
      [] s.currentScreen = "SCREEN_SENDING" -> Quiet(s)
      [] s.currentScreen = "SCREEN_RESULT" /\ s.resultElapsed >= RESULT_SUCCESS_TIME ->
            handleKeyPress([clearAllLEDs(s) EXCEPT !.currentScreen = "SCREEN_MENU"],
                           ReadKey(keypadKey, serialChar), endPacketOk)
      [] OTHER -> handleKeyPress(s, ReadKey(keypadKey, serialChar), endPacketOk)

\* One iteration of the transmitter's loop().
TxLoopBody(s, keypadKey, serialChar, endPacketOk) ==
    CASE s.currentScreen = "SCREEN_BOOT" ->
            IF s.bootElapsed >= TX_BOOT_DISPLAY_TIME
            THEN Quiet([s EXCEPT !.currentScreen = "SCREEN_MENU"])
            ELSE Quiet(s)
      [] s.currentScreen \in {"SCREEN_MENU", "SCREEN_CONFIRM",
                              "SCREEN_SYSTEM_INFO", "SCREEN_USER_MANUAL"} ->
            handleKeyPress(s, ReadKey(keypadKey, serialChar), endPacketOk)
      [] s.currentScreen = "SCREEN_SENDING" -> Quiet(s)
      [] s.currentScreen = "SCREEN_RESULT" ->
            handleKeyPress(ResultTimeout(s), ReadKey(keypadKey, serialChar), endPacketOk)

\* The values currentScreen is assigned, one after the other, while
\* handleKeyPress runs from globals s: the sending screen and the result
\* screen when transmitAlert is called, else the new screen if it changes.
KeyScreens(s, key, endPacketOk) ==
    IF handleKeyPress(s, key, endPacketOk).attempts # <<>>
    THEN <<"SCREEN_SENDING", "SCREEN_RESULT">>
    ELSE IF handleKeyPress(s, key, endPacketOk).s.currentScreen # s.currentScreen
    THEN <<handleKeyPress(s, key, endPacketOk).s.currentScreen>>
    ELSE <<>>

\* The values currentScreen takes, one after the other, during one iteration
\* of loop() from globals s, each different from the value before it.
ScreensVisited(s, keypadKey, serialChar, endPacketOk) ==
    IF s.currentScreen = "SCREEN_RESULT"
    THEN (IF ResultTimeout(s).currentScreen # s.currentScreen
          THEN <<ResultTimeout(s).currentScreen>> ELSE <<>>)
         \o KeyScreens(ResultTimeout(s), ReadKey(keypadKey, serialChar), endPacketOk)
    ELSE IF s.currentScreen = "SCREEN_BOOT"
    THEN (IF s.bootElapsed >= TX_BOOT_DISPLAY_TIME THEN <<"SCREEN_MENU">> ELSE <<>>)
    ELSE IF s.currentScreen = "SCREEN_SENDING" THEN <<>>
    ELSE KeyScreens(s, ReadKey(keypadKey, serialChar), endPacketOk)

RxUnchanged == UNCHANGED <<rx, nvs, rxIn, rxOut>>

\* Stopped timers: bootStartTime is read only in Boot, resultStartTime only in
\* Result (drawResultScreen restarts it on every entry).
TxSettle(s) ==
    [s EXCEPT !.bootElapsed = IF s.currentScreen = "SCREEN_BOOT" THEN @ ELSE 0,
              !.resultElapsed = IF s.currentScreen = "SCREEN_RESULT" THEN @ ELSE 0]

\* The run of failed send attempts since the confirm key was last pressed in
\* Confirm, after a step from globals s that made the calls in r.
FailRun(s, r, before) ==
    IF r.attempts = <<>>
    THEN IF r.s.currentScreen = "SCREEN_RESULT" THEN before ELSE 0
    ELSE IF r.attempts[1] THEN 0
         ELSE IF s.currentScreen = "SCREEN_CONFIRM" THEN 1 ELSE before + 1

\* One iteration of loop() as a step of the transmitter's variables.  With
\* observe = "key" the key and the screen it was read in are recorded in txIo;
\* with observe = "result", whether a key was read while the result was shown.
TxStep(keypadKey, serialChar, endPacketOk, observe) ==
    \E r \in {TxLoopBody(tx, keypadKey, serialChar, endPacketOk)} :
        /\ r.s.totalTransmissions <= MaxTransmissions
        /\ tx' = TxSettle(r.s)
        /\ txIo' = [key |-> IF observe = "key" THEN ReadKey(keypadKey, serialChar)
                            ELSE NoKey,
                    screen |-> IF observe = "key" THEN tx.currentScreen ELSE "",
                    resultKey |-> /\ observe = "result"
                                  /\ tx.currentScreen = "SCREEN_RESULT"
                                  /\ ReadKey(keypadKey, serialChar) # NoKey,
                    air |-> r.air,
                    attempts |-> r.attempts,
                    failRun |-> FailRun(tx, r, txIo.failRun)]
        /\ RxUnchanged
        /\ UNCHANGED <<codec, pushed>>

\* Whether the key makes transmitAlert run, so that the radio's answer matters.
Sends(s, key) ==
    key = "*" /\ s.currentScreen \in {"SCREEN_CONFIRM", "SCREEN_RESULT"}

\* loop() with a key from the keypad.
TxLoopKeypad ==
    \E key \in KeypadKeys :
        \E endPacketOk \in (IF Sends(tx, key) THEN BOOLEAN ELSE {FALSE}) :
            TxStep(key, NoKey, endPacketOk, "")

\* loop() with no keypad key and a character waiting on the serial port.
TxLoopSerial ==
    \E c \in SerialChars :
        \E endPacketOk \in (IF Sends(tx, readSerialKey(c)) THEN BOOLEAN ELSE {FALSE}) :
            TxStep(NoKey, c, endPacketOk, "")

\* loop() with no input at all: only the timed transitions can happen.
TxLoopIdle == TxStep(NoKey, NoKey, FALSE, "")

\* Keys of an operator who does not open the user manual, whose page counter
\* plays no part in sending.
SendingKeys == KeypadKeys \ {"D"}

\* The same iterations for that operator, recording whether a key was read in
\* Result.
TxLiveKeypad ==
    \E key \in SendingKeys :
        \E endPacketOk \in (IF Sends(tx, key) THEN BOOLEAN ELSE {FALSE}) :
            TxStep(key, NoKey, endPacketOk, "result")

TxLiveSerial ==
    \E c \in SerialChars :
        \E endPacketOk \in (IF Sends(tx, readSerialKey(c)) THEN BOOLEAN ELSE {FALSE}) :
            TxStep(NoKey, c, endPacketOk, "result")

\* The same iterations for an operator who only navigates (no send attempt is
\* made), with the key recorded.
TxNavKeypad ==
    \E key \in KeypadKeys :
        /\ TxLoopBody(tx, key, NoKey, FALSE).attempts = <<>>
        /\ TxStep(key, NoKey, FALSE, "key")

TxNavSerial ==
    \E c \in SerialChars :
        /\ TxLoopBody(tx, NoKey, c, FALSE).attempts = <<>>
        /\ TxStep(NoKey, c, FALSE, "key")

\* Time passes on the transmitter: a running timer reaches its threshold.
TxTick ==
    /\ \E b, r \in BOOLEAN :
          tx' = [tx EXCEPT
                   !.bootElapsed = IF b /\ tx.currentScreen = "SCREEN_BOOT"
                                   THEN NextThreshold(@, {TX_BOOT_DISPLAY_TIME}) ELSE @,
                   !.resultElapsed = IF r /\ tx.currentScreen = "SCREEN_RESULT"
                                     THEN NextThreshold(@, {RESULT_SUCCESS_TIME}) ELSE @]
    /\ tx' # tx
    /\ txIo' = [txIo EXCEPT !.key = NoKey, !.screen = "", !.resultKey = FALSE,
                             !.air = <<>>, !.attempts = <<>>]
    /\ RxUnchanged
    /\ UNCHANGED <<codec, pushed>>

-----------------------------------------------------------------------------
(* Receiver: lifeline_rx_pro.ino                                           *)

RX_BOOT_DISPLAY_TIME == 1000

ALERT_DISPLAY_TIME == 30000

HISTORY_MAX_ITEMS == 10

WIFI_PORTAL_TIMEOUT == 180000

LONG_PRESS_DURATION == 3000

\* checkWiFiPortalButton shows and later erases the progress bar once the press
\* has lasted more than this many ms.
PROGRESS_AFTER == 200

\* Bound of the model: alerts recorded in one run of the receiver.
MaxAlerts == 2

\* LoRa.parsePacket() == 0, no serial line, no HTTP request.
NoPacket == <<>>

NoRequest == [method |-> "NONE", ssid |-> "", password |-> ""]

\* Radio payloads the model delivers to the receiver.
RxPayloads ==
    { <<"T", "X", "0", "0", "3", ",", "A">>,
      <<"T", "X", "0", "0", "7", ",", "9", "9">>,
      <<"T", "X", "0", "0", "7", ",", "1", "5">>,
      <<"T", "X", "0", "0", "7", ",">>,
      <<"T", "X", "0", "0", "7">>,
      <<"g", "a", "r", "b", "a", "g", "e">>,
      <<"T", "X", ",", "A">>,
      <<"T", "X", "a", "b", "c", ",", "A">> }

\* LoRa.packetRssi() values.
RssiValues == {-80}

\* Lines typed on the receiver's debug serial port.
SerialLines == { <<"h">>, <<"c">>, <<"7", ",", "9", "9">> }

\* Form fields a client posts to /save.
PortalSsids == {"", "Home"}

PortalPasswords == {"secret"}

HttpRequests ==
    {[method |-> "GET", ssid |-> "", password |-> ""]}
    \cup {[method |-> "POST", ssid |-> a, password |-> b] :
             a \in PortalSsids, b \in PortalPasswords}

\* What the Preferences namespace can hold when the receiver is powered on.
InitialNvs ==
    {[ssid |-> "", password |-> ""], [ssid |-> "Cafe", password |-> "old"]}

EmptyRecord == [deviceId |-> 0, alertIndex |-> 0, rssi |-> 0]

\* What one iteration did: the alert it decoded, the dashboard pushes, for each
\* push the number of alerts drawn so far when it was made, the HTTP status
\* answered (0: none), whether ESP.restart() ran, whether a long press was
\* detected.
QuietOut ==
    [alert |-> [ok |-> FALSE, deviceId |-> 0, alertIndex |-> 0, rssi |-> 0],
     api |-> <<>>, shownBefore |-> <<>>, http |-> 0, restarted |-> FALSE,
     longPress |-> FALSE]

\* Faulty variant: the password is not read back.
loadWiFiCredentials_NoPassword(s, store) ==
    [s EXCEPT !.storedSSID = store.ssid]

\* loadWiFiCredentials(): absent keys read as "".
loadWiFiCredentials(s, store) ==
    [s EXCEPT !.storedSSID = store.ssid, !.storedPassword = store.password]

\* Faulty variant: without credentials the boot opens the portal.
connectToWiFiSilent_AutoPortal(s, connected) ==
    IF s.storedSSID = "" THEN [s EXCEPT !.portalActive = TRUE]
    ELSE [s EXCEPT !.wifiConnected = connected, !.staLink = connected]

\* connectToWiFiSilent(): connected is the outcome of the bounded wait.
connectToWiFiSilent(s, connected) ==
    IF s.storedSSID = "" THEN s
    ELSE [s EXCEPT !.wifiConnected = connected, !.staLink = connected]

\* The receiver's globals when setup() returns.
RxAfterSetup(store, connected) ==
    LET s0 == [currentScreen |-> "SCREEN_BOOT",
               bootElapsed |-> 0,
               alertElapsed |-> 0,
               lastDeviceId |-> 0,
               lastAlertIndex |-> 0,
               lastRssi |-> 0,
               alertHistory |-> [i \in 1..HISTORY_MAX_ITEMS |-> EmptyRecord],
               historyCount |-> 0,
               totalAlertsReceived |-> 0,
               wifiConnected |-> FALSE,
               staLink |-> FALSE,
               portalActive |-> FALSE,
               portalElapsed |-> 0,
               buttonElapsed |-> 0,
               buttonPressed |-> FALSE,
               storedSSID |-> "",
               storedPassword |-> "",
               ledGreen |-> FALSE,
               ledRed |-> FALSE]
    IN  connectToWiFiSilent(loadWiFiCredentials(s0, store), connected)

\* Faulty variant: a full buffer overwrites its newest slot without shifting.
addToHistory_NoShift(s, deviceId, alertIndex, rssi) ==
    LET count == IF s.historyCount >= HISTORY_MAX_ITEMS
                 THEN HISTORY_MAX_ITEMS - 1 ELSE s.historyCount
    IN  [s EXCEPT !.alertHistory[count + 1] =
                     [deviceId |-> deviceId, alertIndex |-> alertIndex, rssi |-> rssi],
                  !.historyCount = count + 1,
                  !.totalAlertsReceived = @ + 1]

\* addToHistory(): alertHistory[i + 1] of the model is alertHistory[i] of the code.
addToHistory(s, deviceId, alertIndex, rssi) ==
    LET full == s.historyCount >= HISTORY_MAX_ITEMS
        shifted == IF full
                   THEN [i \in 1..HISTORY_MAX_ITEMS |->
                            IF i <= HISTORY_MAX_ITEMS - 1 THEN s.alertHistory[i + 1]
                            ELSE s.alertHistory[i]]
                   ELSE s.alertHistory
        count == IF full THEN HISTORY_MAX_ITEMS - 1 ELSE s.historyCount
    IN  [s EXCEPT !.alertHistory =
                     [shifted EXCEPT ![count + 1] =
                         [deviceId |-> deviceId, alertIndex |-> alertIndex, rssi |-> rssi]],
                  !.historyCount = count + 1,
                  !.totalAlertsReceived = @ + 1]

\* Faulty variant: the signal strength shown is not stored.
drawAlertScreen_NoRssi(s, deviceId, alertIndex, rssi) ==
    addToHistory([s EXCEPT !.lastDeviceId = deviceId,
                           !.lastAlertIndex = alertIndex,
                           !.alertElapsed = 0],
                 deviceId, alertIndex, rssi)

\* Faulty variant: the alert is shown but not appended to the history.
drawAlertScreen_NoHistory(s, deviceId, alertIndex, rssi) ==
    [s EXCEPT !.lastDeviceId = deviceId,
              !.lastAlertIndex = alertIndex,
              !.lastRssi = rssi,
              !.alertElapsed = 0,
              !.totalAlertsReceived = @ + 1]

\* drawAlertScreen(): after drawing it stores the alert, restarts the display
\* timer and appends the alert to the history.
drawAlertScreen(s, deviceId, alertIndex, rssi) ==
    addToHistory([s EXCEPT !.lastDeviceId = deviceId,
                           !.lastAlertIndex = alertIndex,
                           !.lastRssi = rssi,
                           !.alertElapsed = 0],
                 deviceId, alertIndex, rssi)

shouldReturnToIdle(s) ==
    IF s.currentScreen # "SCREEN_ALERT" THEN FALSE
    ELSE s.alertElapsed >= ALERT_DISPLAY_TIME

\* Faulty variant: only the upper-case letters are codes.
ParseAlertPart_UpperOnly(alertPart) ==
    IF Len(alertPart) = 1 /\ Ord(alertPart[1]) >= Ord("A") /\ Ord(alertPart[1]) <= Ord("O")
    THEN Ord(alertPart[1]) - Ord("A")
    ELSE ToInt(alertPart)

\* The alert-code part of a payload: a letter A-O or a-o, else toInt().
ParseAlertPart(alertPart) ==
    IF Len(alertPart) = 1 /\ Ord(alertPart[1]) >= Ord("A") /\ Ord(alertPart[1]) <= Ord("O")
    THEN Ord(alertPart[1]) - Ord("A")
    ELSE IF Len(alertPart) = 1 /\ Ord(alertPart[1]) >= Ord("a")
                               /\ Ord(alertPart[1]) <= Ord("o")
    THEN Ord(alertPart[1]) - Ord("a")
    ELSE ToInt(alertPart)

Rejected == [ok |-> FALSE, deviceId |-> 0, alertIndex |-> 0, rssi |-> 0]

\* Faulty variant: a device id outside 1..999 is rejected.
parseLoRaPacket_CheckId(raw, packetRssi) ==
    IF raw = NoPacket THEN Rejected
    ELSE LET data == IF StartsWith(raw, <<"T", "X">>) THEN SubstringFrom(raw, 2) ELSE raw
             comma == IndexOf(data, ",")
             alertIndex == ParseAlertPart(Trim(SubstringFrom(data, comma + 1)))
         IN  IF comma <= 0 THEN Rejected
             ELSE IF ToInt(Substring(data, 0, comma)) \notin 1..999 THEN Rejected
             ELSE [ok |-> TRUE,
                   deviceId |-> ToInt(Substring(data, 0, comma)),
                   alertIndex |-> IF alertIndex < 0 \/ alertIndex >= ALERT_COUNT
                                  THEN ALERT_COUNT - 1 ELSE alertIndex,
                   rssi |-> packetRssi]

\* Faulty variant: an alert index outside the catalog is rejected.
parseLoRaPacket_RejectRange(raw, packetRssi) ==
    IF raw = NoPacket THEN Rejected
    ELSE LET data == IF StartsWith(raw, <<"T", "X">>) THEN SubstringFrom(raw, 2) ELSE raw
             comma == IndexOf(data, ",")
             alertIndex == ParseAlertPart(Trim(SubstringFrom(data, comma + 1)))
         IN  IF comma <= 0 \/ alertIndex < 0 \/ alertIndex >= ALERT_COUNT THEN Rejected
             ELSE [ok |-> TRUE,
                   deviceId |-> ToInt(Substring(data, 0, comma)),
                   alertIndex |-> alertIndex,
                   rssi |-> packetRssi]

\* Faulty variant: only a missing comma is rejected (comma < 0).
parseLoRaPacket_EmptyId(raw, packetRssi) ==
    IF raw = NoPacket THEN Rejected
    ELSE LET data == IF StartsWith(raw, <<"T", "X">>) THEN SubstringFrom(raw, 2) ELSE raw
             comma == IndexOf(data, ",")
             alertIndex == ParseAlertPart(Trim(SubstringFrom(data, comma + 1)))
         IN  IF comma < 0 THEN Rejected
             ELSE [ok |-> TRUE,
                   deviceId |-> ToInt(Substring(data, 0, comma)),
                   alertIndex |-> IF alertIndex < 0 \/ alertIndex >= ALERT_COUNT
                                  THEN ALERT_COUNT - 1 ELSE alertIndex,
                   rssi |-> packetRssi]

\* parseLoRaPacket(): raw is the payload read from the radio (NoPacket when
\* LoRa.parsePacket() returns 0), packetRssi is LoRa.packetRssi().
parseLoRaPacket(raw, packetRssi) ==
    IF raw = NoPacket THEN Rejected
    ELSE LET data == IF StartsWith(raw, <<"T", "X">>) THEN SubstringFrom(raw, 2) ELSE raw
             comma == IndexOf(data, ",")
         IN  IF comma <= 0 THEN Rejected
             ELSE LET deviceId == ToInt(Substring(data, 0, comma))
                      alertPart == Trim(SubstringFrom(data, comma + 1))
                      alertIndex == ParseAlertPart(alertPart)
                  IN  [ok |-> TRUE,
                       deviceId |-> deviceId,
                       alertIndex |-> IF alertIndex < 0 \/ alertIndex >= ALERT_COUNT
                                      THEN ALERT_COUNT - 1 ELSE alertIndex,
                       rssi |-> packetRssi]

\* Faulty variant: a code outside the catalog becomes the last entry.
checkSerialSimulatedPacket_Clamp(line) ==
    LET input == Trim(line)
    IN  IF Len(input) = 0 THEN Rejected
        ELSE IF input \in {<<"h">>, <<"H">>, <<"h", "e", "l", "p">>, <<"?">>} THEN Rejected
        ELSE IF Len(input) = 1 /\ IsDigit(input[1])
        THEN [ok |-> TRUE, deviceId |-> 1,
              alertIndex |-> IF input[1] = "0" THEN 9 ELSE Ord(input[1]) - Ord("1"),
              rssi |-> -65]
        ELSE IF Len(input) = 1 /\ (\/ Ord(input[1]) >= Ord("A") /\ Ord(input[1]) <= Ord("O")
                                   \/ Ord(input[1]) >= Ord("a") /\ Ord(input[1]) <= Ord("o"))
        THEN LET code == IF Ord(input[1]) >= Ord("a")
                         THEN Ord(input[1]) - Ord("a") + Ord("A") ELSE Ord(input[1])
             IN  [ok |-> TRUE, deviceId |-> 1, alertIndex |-> code - Ord("A"), rssi |-> -65]
        ELSE LET comma == IndexOf(input, ",")
             IN  IF comma <= 0 THEN Rejected
                 ELSE LET deviceId == ToInt(Substring(input, 0, comma))
                          alertIndex == ParseAlertPart(Trim(SubstringFrom(input, comma + 1)))
                      IN  [ok |-> TRUE, deviceId |-> deviceId,
                           alertIndex |-> IF alertIndex < 0 \/ alertIndex >= ALERT_COUNT
                                          THEN ALERT_COUNT - 1 ELSE alertIndex,
                           rssi |-> -65]

\* checkSerialSimulatedPacket(): line is the text waiting on the serial port
\* without its line end (NoPacket when nothing is waiting).
checkSerialSimulatedPacket(line) ==
    LET input == Trim(line)
    IN  IF Len(input) = 0 THEN Rejected
        ELSE IF input \in {<<"h">>, <<"H">>, <<"h", "e", "l", "p">>, <<"?">>} THEN Rejected
        ELSE IF Len(input) = 1 /\ IsDigit(input[1])
        THEN [ok |-> TRUE, deviceId |-> 1,
              alertIndex |-> IF input[1] = "0" THEN 9 ELSE Ord(input[1]) - Ord("1"),
              rssi |-> -65]
        ELSE IF Len(input) = 1 /\ (\/ Ord(input[1]) >= Ord("A") /\ Ord(input[1]) <= Ord("O")
                                   \/ Ord(input[1]) >= Ord("a") /\ Ord(input[1]) <= Ord("o"))
        THEN LET code == IF Ord(input[1]) >= Ord("a")
                         THEN Ord(input[1]) - Ord("a") + Ord("A") ELSE Ord(input[1])
             IN  [ok |-> TRUE, deviceId |-> 1, alertIndex |-> code - Ord("A"), rssi |-> -65]
        ELSE LET comma == IndexOf(input, ",")
             IN  IF comma <= 0 THEN Rejected
                 ELSE LET deviceId == ToInt(Substring(input, 0, comma))
                          alertIndex == ParseAlertPart(Trim(SubstringFrom(input, comma + 1)))
                      IN  IF alertIndex < 0 \/ alertIndex >= ALERT_COUNT THEN Rejected
                          ELSE [ok |-> TRUE, deviceId |-> deviceId,
                                alertIndex |-> alertIndex, rssi |-> -65]

\* if (!packetReceived) packetReceived = checkSerialSimulatedPacket(...)
OrSerial(p, line) == IF p.ok THEN p ELSE checkSerialSimulatedPacket(line)

\* The radio first, the serial port only when the radio gave nothing.
ReceivePacket(in) == OrSerial(parseLoRaPacket(in.radio, in.rssi), in.serial)

-----------------------------------------------------------------------------
(* Receiver: WiFi, provisioning portal and loop().  A handler maps a        *)
(* machine m = [s: globals, nvs: Preferences, out: outputs of this          *)
(* iteration] to the machine after it; in holds the iteration's inputs.     *)

\* startWiFiPortal(): WiFi.disconnect(true), access point and routes up.
startWiFiPortal(m) ==
    [m EXCEPT !.s.staLink = FALSE, !.s.portalActive = TRUE, !.s.portalElapsed = 0]

\* Faulty variant: a failed connection leaves the portal closed.
connectToWiFi_NoPortal(m, in) ==
    IF m.s.storedSSID = "" THEN m
    ELSE LET m1 == [m EXCEPT !.s.alertElapsed =
                        IF in.blockExpires THEN NextThreshold(@, {ALERT_DISPLAY_TIME}) ELSE @]
         IN  IF in.wifiOk
             THEN [m1 EXCEPT !.s.wifiConnected = TRUE, !.s.staLink = TRUE]
             ELSE [m1 EXCEPT !.s.wifiConnected = FALSE, !.s.staLink = FALSE]

\* connectToWiFi(): in.wifiOk is the outcome of the bounded wait.  The call
\* blocks for seconds, during which the alert display time may run out
\* (in.blockExpires).
connectToWiFi(m, in) ==
    IF m.s.storedSSID = "" THEN m
    ELSE LET m1 == [m EXCEPT !.s.alertElapsed =
                        IF in.blockExpires THEN NextThreshold(@, {ALERT_DISPLAY_TIME}) ELSE @]
         IN  IF in.wifiOk
             THEN [m1 EXCEPT !.s.wifiConnected = TRUE, !.s.staLink = TRUE]
             ELSE startWiFiPortal([m1 EXCEPT !.s.wifiConnected = FALSE, !.s.staLink = FALSE])

\* stopWiFiPortal(), its end: back to the idle screen unless an alert is shown.
LeavePortalScreen(m) ==
    IF m.s.currentScreen # "SCREEN_ALERT"
    THEN [m EXCEPT !.s.currentScreen = "SCREEN_IDLE"]
    ELSE m

\* stopWiFiPortal(), its middle: reconnect when credentials are stored.
Reconnect(m, in) == IF m.s.storedSSID # "" THEN connectToWiFi(m, in) ELSE m

stopWiFiPortal(m, in) ==
    IF ~m.s.portalActive THEN m
    ELSE LeavePortalScreen(Reconnect([m EXCEPT !.s.portalActive = FALSE], in))

\* The redraw that erases the progress bar: drawIdleScreen() changes no
\* control state, drawAlertScreen() is called with the stored alert.
RedrawCurrentScreen(m) ==
    IF m.s.currentScreen = "SCREEN_ALERT"
    THEN [m EXCEPT !.s = drawAlertScreen(m.s, m.s.lastDeviceId, m.s.lastAlertIndex,
                                         m.s.lastRssi)]
    ELSE m

\* The long press toggles the portal, or connects when credentials are stored.
TogglePortal(m, in) ==
    IF m.s.portalActive THEN stopWiFiPortal(m, in)
    ELSE IF m.s.storedSSID # "" THEN connectToWiFi(m, in)
    ELSE startWiFiPortal(m)

\* if (!portalActive) redraw, after the long press was handled.
RedrawUnlessPortal(m) == IF ~m.s.portalActive THEN RedrawCurrentScreen(m) ELSE m

\* The release of the button, buttonPressed already cleared.
RedrawAfterRelease(m) ==
    IF ~m.s.portalActive /\ m.s.buttonElapsed > PROGRESS_AFTER
    THEN RedrawCurrentScreen(m)
    ELSE m

checkWiFiPortalButton(m, in) ==
    IF in.buttonLow
    THEN IF ~m.s.buttonPressed
         THEN [m EXCEPT !.s.buttonPressed = TRUE, !.s.buttonElapsed = 0]
         ELSE IF m.s.buttonElapsed >= LONG_PRESS_DURATION
              THEN RedrawUnlessPortal(
                       TogglePortal([m EXCEPT !.s.buttonPressed = FALSE,
                                              !.out.longPress = TRUE], in))
              ELSE m
    ELSE IF m.s.buttonPressed
         THEN RedrawAfterRelease([m EXCEPT !.s.buttonPressed = FALSE])
         ELSE m

saveWiFiCredentials(m, ssid, password) ==
    [m EXCEPT !.nvs = [ssid |-> ssid, password |-> password],
              !.s.storedSSID = ssid,
              !.s.storedPassword = password]

\* ESP.restart(): the globals are rebuilt by setup() from the Preferences.
Restart(m, in) ==
    [m EXCEPT !.s = RxAfterSetup(m.nvs, in.wifiOk), !.out.restarted = TRUE]

\* Faulty variant: an empty ssid is saved like any other.
handlePortalSave_AcceptEmpty(m, in) ==
    Restart([saveWiFiCredentials(m, in.http.ssid, in.http.password)
                EXCEPT !.out.http = 200], in)

\* Faulty variant: the device restarts before the credentials are stored.
handlePortalSave_RestartFirst(m, in) ==
    IF in.http.ssid # ""
    THEN LET m1 == Restart([m EXCEPT !.out.http = 200], in)
         IN  [m1 EXCEPT !.nvs = [ssid |-> in.http.ssid, password |-> in.http.password]]
    ELSE [m EXCEPT !.out.http = 400]

handlePortalSave(m, in) ==
    IF in.http.ssid # ""
    THEN Restart([saveWiFiCredentials(m, in.http.ssid, in.http.password)
                     EXCEPT !.out.http = 200], in)
    ELSE [m EXCEPT !.out.http = 400]

handlePortalRoot(m) == [m EXCEPT !.out.http = 200]

\* wifiServer.handleClient() with the routes startWiFiPortal registers.
handleClient(m, in) ==
    IF in.http.method = "GET" THEN handlePortalRoot(m)
    ELSE IF in.http.method = "POST" THEN handlePortalSave(m, in)
    ELSE m

\* The portal's auto-timeout; nothing runs after ESP.restart().
PortalTimeout(m, in) ==
    IF m.out.restarted THEN m
    ELSE IF m.s.portalElapsed >= WIFI_PORTAL_TIMEOUT THEN stopWiFiPortal(m, in)
    ELSE m

handleWiFiPortal(m, in) ==
    IF ~m.s.portalActive THEN m ELSE PortalTimeout(handleClient(m, in), in)

\* Faulty variant: WiFi.status() is not asked, the wifiConnected flag decides.
pushAlertToAPI_FlagOnly(m, in, deviceId, alertIndex, rssi) ==
    IF ~m.s.wifiConnected THEN m
    ELSE [m EXCEPT !.out.api =
             Append(@, [DID |-> deviceId, message_code |-> alertIndex, RSSI |-> rssi]),
                   !.out.shownBefore = Append(@, m.s.totalAlertsReceived)]

\* pushAlertToAPI(): WiFi.status() is connected when the station link is up
\* and has not dropped (in.linkUp).
pushAlertToAPI(m, in, deviceId, alertIndex, rssi) ==
    IF ~m.s.wifiConnected \/ ~(m.s.staLink /\ in.linkUp) THEN m
    ELSE [m EXCEPT !.out.api =
             Append(@, [DID |-> deviceId, message_code |-> alertIndex, RSSI |-> rssi]),
                   !.out.shownBefore = Append(@, m.s.totalAlertsReceived)]

\* loop(), SCREEN_IDLE and SCREEN_ALERT: a received packet is relayed to the
\* dashboard and drawn (from Idle the screen becomes Alert first).
RelayAndShow(m, in, p) ==
    [pushAlertToAPI([m EXCEPT !.out.alert = p], in, p.deviceId, p.alertIndex, p.rssi)
        EXCEPT !.s = drawAlertScreen([@ EXCEPT !.currentScreen = "SCREEN_ALERT"],
                                     p.deviceId, p.alertIndex, p.rssi)]

\* loop(), SCREEN_IDLE after checkWiFiPortalButton(): p is the packet received.
IdlePacket(m, in, p) ==
    IF ~p.ok THEN m
    ELSE IF alertPriority[p.alertIndex + 1] <= 1
    THEN [RelayAndShow(m, in, p) EXCEPT !.s.ledRed = TRUE, !.s.ledGreen = FALSE]
    ELSE [RelayAndShow(m, in, p) EXCEPT !.s.ledGreen = TRUE, !.s.ledRed = FALSE]

\* loop(), SCREEN_ALERT after checkWiFiPortalButton(): p is the packet received.
AlertPacket(m, in, p) ==
    IF ~p.ok THEN m
    ELSE IF alertPriority[p.alertIndex + 1] <= 1
    THEN [RelayAndShow(m, in, p) EXCEPT !.s.ledRed = TRUE, !.s.ledGreen = FALSE]
    ELSE RelayAndShow(m, in, p)

\* loop(), SCREEN_ALERT: return to idle after the display time.
ReturnToIdle(m) ==
    IF shouldReturnToIdle(m.s)
    THEN [m EXCEPT !.s.currentScreen = "SCREEN_IDLE",
                   !.s.ledGreen = TRUE, !.s.ledRed = FALSE]
    ELSE m

\* One iteration of the receiver's loop().
RxLoopBody(m, in) ==
    IF m.s.portalActive
    THEN handleWiFiPortal(checkWiFiPortalButton(m, in), in)
    ELSE CASE m.s.currentScreen = "SCREEN_BOOT" ->
                 IF m.s.bootElapsed >= RX_BOOT_DISPLAY_TIME
                 THEN [m EXCEPT !.s.currentScreen = "SCREEN_IDLE", !.s.ledGreen = TRUE]
                 ELSE m
           [] m.s.currentScreen = "SCREEN_IDLE" ->
                 IdlePacket(checkWiFiPortalButton(m, in), in, ReceivePacket(in))
           [] m.s.currentScreen = "SCREEN_ALERT" ->
                 ReturnToIdle(
                     AlertPacket(checkWiFiPortalButton(m, in), in, ReceivePacket(in)))
           [] OTHER -> m

TxUnchanged == UNCHANGED <<tx, txIo>>

\* Stopped timers: bootStartTime is read only in Boot, alertReceivedTime only
\* in Alert (drawAlertScreen restarts it), portalStartTime only while the
\* portal is active (startWiFiPortal restarts it), buttonPressStart only during
\* a press (the press restarts it).
RxSettle(s) ==
    [s EXCEPT !.bootElapsed = IF s.currentScreen = "SCREEN_BOOT" THEN @ ELSE 0,
              !.alertElapsed = IF s.currentScreen = "SCREEN_ALERT" THEN @ ELSE 0,
              !.portalElapsed = IF s.portalActive THEN @ ELSE 0,
              !.buttonElapsed = IF s.buttonPressed THEN @ ELSE 0]

\* The inputs of one iteration.
RxInput(buttonLow, radio, rssi, serial, http, wifiOk, linkUp, blockExpires) ==
    [buttonLow |-> buttonLow, radio |-> radio, rssi |-> rssi, serial |-> serial,
     http |-> http, wifiOk |-> wifiOk, linkUp |-> linkUp, blockExpires |-> blockExpires]

\* What is kept of the inputs of an iteration from globals s to globals after:
\* the radio payload, the HTTP request, whether the iteration reached
\* parseLoRaPacket, whether the payload was the only input (the button up and
\* not in a press, no serial line), and whether the dashboard could be reached
\* (wifiConnected set and WiFi.status() == WL_CONNECTED).
Consumed(s, in, after) ==
    [radio |-> in.radio,
     http |-> in.http,
     parsed |-> ~s.portalActive /\ s.currentScreen \in {"SCREEN_IDLE", "SCREEN_ALERT"},
     alone |-> ~in.buttonLow /\ ~s.buttonPressed /\ in.serial = NoPacket,
     online |-> after.wifiConnected /\ after.staLink /\ in.linkUp]

QuietIn ==
    [radio |-> NoPacket, http |-> NoRequest, parsed |-> FALSE, alone |-> TRUE,
     online |-> FALSE]

\* The iteration as a step of the receiver's variables.
RxStep(in) ==
    \E r \in {RxLoopBody([s |-> rx, nvs |-> nvs, out |-> QuietOut], in)} :
        /\ r.s.totalAlertsReceived <= MaxAlerts
        /\ rx' = RxSettle(r.s)
        /\ nvs' = r.nvs
        /\ rxOut' = r.out
        /\ rxIn' = Consumed(rx, in, r.s)
        /\ TxUnchanged
        /\ UNCHANGED <<codec, pushed>>

\* A long press is being completed, so that connectToWiFi may run.
LongPressDue(s) == s.buttonPressed /\ s.buttonElapsed >= LONG_PRESS_DURATION

\* loop() with nothing waiting and the button released.
RxLoopIdle ==
    \E wifiOk \in (IF rx.portalActive THEN BOOLEAN ELSE {FALSE}) :
        RxStep(RxInput(FALSE, NoPacket, 0, NoPacket, NoRequest, wifiOk, FALSE, FALSE))

\* loop() with the portal button held down.
RxLoopButton ==
    \E wifiOk, blockExpires \in (IF LongPressDue(rx) THEN BOOLEAN ELSE {FALSE}) :
        RxStep(RxInput(TRUE, NoPacket, 0, NoPacket, NoRequest, wifiOk, FALSE, blockExpires))

\* loop() with a radio packet waiting.
RxLoopRadio ==
    /\ ~rx.portalActive
    /\ \E buttonLow, linkUp \in BOOLEAN, raw \in RxPayloads, rssi \in RssiValues :
          \E wifiOk \in (IF buttonLow /\ LongPressDue(rx) THEN BOOLEAN ELSE {FALSE}) :
              RxStep(RxInput(buttonLow, raw, rssi, NoPacket, NoRequest, wifiOk, linkUp, FALSE))

\* loop() with a line waiting on the debug serial port and no radio packet.
RxLoopSerial ==
    /\ ~rx.portalActive
    /\ \E line \in SerialLines, linkUp \in BOOLEAN :
          RxStep(RxInput(FALSE, NoPacket, 0, line, NoRequest, FALSE, linkUp, FALSE))

\* loop() with an HTTP request waiting at the portal's web server.
RxLoopHttp ==
    /\ rx.portalActive
    /\ \E req \in HttpRequests, wifiOk \in BOOLEAN :
          RxStep(RxInput(FALSE, NoPacket, 0, NoPacket, req, wifiOk, FALSE, FALSE))

\* What reaches the radio while the portal is active is not parsed, so one
\* payload stands for all of them.
PortalPayloads == { <<"T", "X", "0", "0", "3", ",", "A">> }

\* loop() with the portal active and a radio packet waiting, with or without
\* an HTTP request: loop() returns before the radio is read.
RxLoopPortalRadio ==
    /\ rx.portalActive
    /\ \E raw \in PortalPayloads, rssi \in RssiValues,
          req \in HttpRequests \cup {NoRequest}, wifiOk \in BOOLEAN :
          RxStep(RxInput(FALSE, raw, rssi, NoPacket, req, wifiOk, FALSE, FALSE))

\* Time passes on the receiver: timers that the code can still read reach
\* their next threshold.
RxTick ==
    /\ \E b, a, p, k \in BOOLEAN :
          rx' = [rx EXCEPT
                   !.bootElapsed = IF b /\ rx.currentScreen = "SCREEN_BOOT"
                                   THEN NextThreshold(@, {RX_BOOT_DISPLAY_TIME}) ELSE @,
                   !.alertElapsed = IF a /\ rx.currentScreen = "SCREEN_ALERT"
                                    THEN NextThreshold(@, {ALERT_DISPLAY_TIME}) ELSE @,
                   !.portalElapsed = IF p /\ rx.portalActive
                                     THEN NextThreshold(@, {WIFI_PORTAL_TIMEOUT}) ELSE @,
                   !.buttonElapsed = IF k /\ rx.buttonPressed
                                     THEN NextThreshold(@, {PROGRESS_AFTER + 1,
                                                            LONG_PRESS_DURATION})
                                     ELSE @]
    /\ rx' # rx
    /\ UNCHANGED nvs
    /\ rxOut' = QuietOut
    /\ rxIn' = QuietIn
    /\ TxUnchanged
    /\ UNCHANGED <<codec, pushed>>

\* Power is cycled: setup() runs again on the stored Preferences.
RxPowerCycle ==
    /\ \E connected \in BOOLEAN : rx' = RxAfterSetup(nvs, connected)
    /\ rxOut' = QuietOut
    /\ rxIn' = QuietIn
    /\ UNCHANGED nvs
    /\ TxUnchanged
    /\ UNCHANGED <<codec, pushed>>

-----------------------------------------------------------------------------
(* Harnesses for the pure functions                                        *)

\* Bound of the model: device ids given to the encoder.
MaxDeviceId == 999

\* Bound of the model: records pushed into the history.
MaxPushes == 15

\* Records the history harness pushes.
HistRecords ==
    {[deviceId |-> 3, alertIndex |-> 0, rssi |-> -80],
     [deviceId |-> 7, alertIndex |-> 14, rssi |-> -65]}

CodecOff == [pc |-> "off", deviceId |-> 0, alertCode |-> 0, packet |-> <<>>, out |-> Rejected]

\* The transmitter builds the packet for the drawn device id and alert code.
CodecEncode ==
    /\ codec.pc = "in"
    /\ codec' = [codec EXCEPT !.pc = "air",
                              !.packet = EncodePacket(codec.deviceId, codec.alertCode)]
    /\ UNCHANGED <<tx, txIo, rx, nvs, rxIn, rxOut, pushed>>

\* The receiver parses the packet it finds on the air.
CodecDecode ==
    /\ codec.pc = "air"
    /\ \E rssi \in RssiValues :
          codec' = [codec EXCEPT !.pc = "done", !.out = parseLoRaPacket(codec.packet, rssi)]
    /\ UNCHANGED <<tx, txIo, rx, nvs, rxIn, rxOut, pushed>>

\* ID substrings given to the decoders.
IdTexts ==
    { <<"0", "0", "3">>, <<"7">>, <<"0">>, <<"1", "0", "0", "0">>, <<"a", "b", "c">>,
      <<"1", "2", "a">>, <<"-", "5">>, <<" ", "4", "2">>, <<"T">>, <<"T", "X", "5">> }

\* The ways a code k is written after the comma.
CodeForms == {"upper", "lower", "decimal"}

CodeAs(form, k) ==
    CASE form = "upper" -> <<Chr(Ord("A") + k)>>
      [] form = "lower" -> <<Chr(Ord("a") + k)>>
      [] OTHER -> DecimalDigits(k)

\* Codes after the comma that name no catalog entry.
StrayCodes == { <<"1", "5">>, <<"9", "9">>, <<"-", "1">>, <<"P">>, <<"z">>, <<>> }

\* Single keys typed on the debug serial port that are neither a digit nor a
\* catalog letter.
StrayKeys == { <<"P">>, <<"z">>, <<"h">>, <<"?">>, <<"#">> }

\* A text of the form [TX]<id>,<code>.
PairText(prefix, id, code) == (IF prefix THEN <<"T", "X">> ELSE <<>>) \o id \o <<",">> \o code

\* The texts the decoders are given, each with the parts it was built from:
\* an ID and a catalog code in one of the six spellings, an ID and a stray
\* code, or a single key.
DecoderInputs ==
    {[kind |-> "pair", prefix |-> p, id |-> id, form |-> f, k |-> k,
      text |-> PairText(p, id, CodeAs(f, k))] :
        p \in BOOLEAN, id \in IdTexts, f \in CodeForms, k \in 0..(ALERT_COUNT - 1)}
    \cup
    {[kind |-> "stray", prefix |-> p, id |-> id, form |-> "stray", k |-> ALERT_COUNT,
      text |-> PairText(p, id, c)] :
        p \in BOOLEAN, id \in IdTexts, c \in StrayCodes}
    \cup
    {[kind |-> "key", prefix |-> FALSE, id |-> <<>>, form |-> f, k |-> k,
      text |-> CodeAs(f, k)] :
        f \in {"upper", "lower"}, k \in 0..(ALERT_COUNT - 1)}
    \cup
    {[kind |-> "key", prefix |-> FALSE, id |-> <<>>, form |-> "digit", k |-> k,
      text |-> DecimalDigits(k)] : k \in 0..9}
    \cup
    {[kind |-> "key", prefix |-> FALSE, id |-> <<>>, form |-> "stray", k |-> ALERT_COUNT,
      text |-> c] : c \in StrayKeys}

\* The text arrives as a radio payload.
DecodeRadio ==
    /\ codec.pc = "text"
    /\ \E rssi \in RssiValues :
          codec' = [codec EXCEPT !.pc = "radio", !.out = parseLoRaPacket(codec.in.text, rssi)]
    /\ UNCHANGED <<tx, txIo, rx, nvs, rxIn, rxOut, pushed>>

\* The text is typed as a line on the debug serial port.
DecodeSerial ==
    /\ codec.pc = "text"
    /\ codec' = [codec EXCEPT !.pc = "serial",
                              !.out = checkSerialSimulatedPacket(codec.in.text)]
    /\ UNCHANGED <<tx, txIo, rx, nvs, rxIn, rxOut, pushed>>

\* addToHistory() called with one record.
HistPush ==
    /\ Len(pushed) < MaxPushes
    /\ \E rec \in HistRecords :
          /\ rx' = addToHistory(rx, rec.deviceId, rec.alertIndex, rec.rssi)
          /\ pushed' = Append(pushed, rec)
    /\ UNCHANGED <<tx, txIo, nvs, rxIn, rxOut, codec>>

-----------------------------------------------------------------------------
(* Specifications                                                          *)

TxInit ==
    /\ \E loraOk \in BOOLEAN : tx = TxAfterSetup(loraOk)
    /\ txIo = [key |-> NoKey, screen |-> "", resultKey |-> FALSE,
               air |-> <<>>, attempts |-> <<>>, failRun |-> 0]

TxParked ==
    /\ tx = TxAfterSetup(FALSE)
    /\ txIo = [key |-> NoKey, screen |-> "", resultKey |-> FALSE,
               air |-> <<>>, attempts |-> <<>>, failRun |-> 0]

RxInit ==
    /\ nvs \in InitialNvs
    /\ \E connected \in BOOLEAN : rx = RxAfterSetup(nvs, connected)
    /\ rxIn = QuietIn
    /\ rxOut = QuietOut

RxParked ==
    /\ nvs = [ssid |-> "", password |-> ""]
    /\ rx = RxAfterSetup(nvs, FALSE)
    /\ rxIn = QuietIn
    /\ rxOut = QuietOut

HarnessParked == codec = CodecOff /\ pushed = <<>>

\* The initial states of each specification: the firmware under study after
\* setup(), the rest parked.
InitTx == TxInit /\ RxParked /\ HarnessParked

InitRx == RxInit /\ TxParked /\ HarnessParked

InitCodec ==
    /\ TxParked /\ RxParked /\ pushed = <<>>
    /\ codec \in [pc : {"in"}, deviceId : 1..MaxDeviceId, alertCode : 0..(ALERT_COUNT - 1),
                  packet : {<<>>}, out : {Rejected}]

\* parseLoRaPacket() of the ILI9488 receiver variant (first sketch of
\* src/hardware ili9488/LifelineRX_ILI9488.ino): the "TX" prefix is required,
\* the comma must leave room for it, only upper-case letters are read as
\* letters, and a code outside the catalog makes the function return false.
ILI_parseLoRaPacket(raw, packetRssi) ==
    IF raw = NoPacket THEN Rejected
    ELSE IF ~StartsWith(raw, <<"T", "X">>) THEN Rejected
    ELSE LET comma == IndexOf(raw, ",")
         IN  IF comma < 3 THEN Rejected
             ELSE LET deviceId == ToInt(Substring(raw, 2, comma))
                      codePart == Trim(SubstringFrom(raw, comma + 1))
                      alertIndex ==
                          IF /\ Len(codePart) = 1
                             /\ Ord(codePart[1]) >= Ord("A")
                             /\ Ord(codePart[1]) <= Ord("O")
                          THEN Ord(codePart[1]) - Ord("A")
                          ELSE ToInt(codePart)
                  IN  IF alertIndex >= 0 /\ alertIndex < ALERT_COUNT
                      THEN [ok |-> TRUE, deviceId |-> deviceId,
                            alertIndex |-> alertIndex, rssi |-> packetRssi]
                      ELSE Rejected

\* The same payload handed to the ILI9488 variant's parser.
DecodeIli ==
    /\ codec.pc = "text"
    /\ \E rssi \in RssiValues :
          codec' = [codec EXCEPT !.pc = "ili",
                                 !.out = ILI_parseLoRaPacket(codec.in.text, rssi)]
    /\ UNCHANGED <<tx, txIo, rx, nvs, rxIn, rxOut, pushed>>

\* Decoder harness: codec holds the input, which decoder ran and its answer.
InitDecode ==
    /\ TxParked /\ RxParked /\ pushed = <<>>
    /\ codec \in {[pc |-> "text", in |-> i, out |-> Rejected] : i \in DecoderInputs}

\* ---------------------------------------------------------------------------
\* ESP32-S3 transmitter variant (src/hardware ili9488/LifelineRX_ILI9488.ino,
\* second sketch of the file).  It shares the keypad transmitter's screens and
\* adds an accelerometer watch that sends LANDSLIDE by itself.  The variant is
\* kept in tx; txIo holds the outcome of the most recent send and the Result
\* screens the last loop() iteration drew.
\* ---------------------------------------------------------------------------
S3_BOOT_DISPLAY_TIME == 1500
S3_RESULT_SUCCESS_TIME == 2000
S3_MANUAL_TOTAL_PAGES == 4
S3_VISIBLE_MENU_ITEMS == 5
LANDSLIDE_DURATION == 3000
LANDSLIDE_INDEX == 11

\* The three 100 ms + 100 ms blinks checkLandslide runs before it sends.
LANDSLIDE_FEEDBACK == 3 * (100 + 100)

S3MaxTransmissions == 2

\* a - b >= T for unsigned long a, b (32 bits): below zero the difference
\* wraps to 2^32 - (b - a), and 2^32 = 2 * 2147483647 + 2.
ULongDiffAtLeast(a, b, T) ==
    IF a >= b THEN a - b >= T
    ELSE (b - a) - 2147483647 - 2 <= 2147483647 - T

S3AfterSetup(loraOk, mpuOk) ==
    [currentScreen |-> "SCREEN_BOOT", selectedAlertIndex |-> 0,
     menuScrollOffset |-> 0, manualPage |-> 0,
     bootElapsed |-> 0, resultElapsed |-> 0,
     lastTransmitSuccess |-> FALSE, retryCount |-> 0,
     totalTransmissions |-> 0, successfulTransmissions |-> 0,
     loraInitialized |-> loraOk, mpuInitialized |-> mpuOk,
     landslideDetecting |-> FALSE, landslideElapsed |-> 0]

\* The machine one iteration threads through its calls: the sketch's globals
\* s, the sends made so far (sends), the outcome of the most recent send ever
\* made (lastSend), the Result screens drawn (drawn), how far resultStartTime
\* lies after the iteration's reading of now (ahead), whether loop() dismissed
\* Result by its timer (dismissed), and the last return value (ret).
S3Machine(s, lastSend) ==
    [s |-> s, sends |-> <<>>, lastSend |-> lastSend, drawn |-> <<>>,
     ahead |-> 0, dismissed |-> FALSE, ret |-> FALSE]

S3updateMenuScroll(s) ==
    LET a == IF s.selectedAlertIndex < s.menuScrollOffset
             THEN s.selectedAlertIndex
             ELSE IF s.selectedAlertIndex >= s.menuScrollOffset + S3_VISIBLE_MENU_ITEMS
                  THEN s.selectedAlertIndex - S3_VISIBLE_MENU_ITEMS + 1
                  ELSE s.menuScrollOffset
        b == IF a > ALERT_COUNT - S3_VISIBLE_MENU_ITEMS
             THEN ALERT_COUNT - S3_VISIBLE_MENU_ITEMS ELSE a
    IN  [s EXCEPT !.menuScrollOffset = IF b < 0 THEN 0 ELSE b]

\* transmitAlert(): oks[i] is what LoRa.endPacket() returns for the i-th send
\* of the iteration.
S3transmitAlert(m, oks) ==
    IF ~m.s.loraInitialized
    THEN [m EXCEPT !.ret = FALSE]
    ELSE LET success == oks[Len(m.sends) + 1]
         IN  [m EXCEPT
                !.s.totalTransmissions = @ + 1,
                !.s.successfulTransmissions = IF success THEN @ + 1 ELSE @,
                !.sends = Append(@, [alert |-> m.s.selectedAlertIndex, ok |-> success]),
                !.lastSend = IF success THEN "ok" ELSE "failed",
                !.ret = success]

\* drawResultScreen(): draws the tick or the cross after lastTransmitSuccess
\* and restarts the Result timer at a millis() read after now.
S3drawResultScreen(m, delay) ==
    [m EXCEPT !.drawn = Append(@, [success |-> m.s.lastTransmitSuccess,
                                   send |-> m.lastSend]),
              !.s.resultElapsed = 0,
              !.ahead = delay]

checkLandslide(m, high, oks) ==
    IF ~m.s.mpuInitialized THEN m
    ELSE IF ~high THEN [m EXCEPT !.s.landslideDetecting = FALSE]
    ELSE IF ~m.s.landslideDetecting
    THEN [m EXCEPT !.s.landslideDetecting = TRUE, !.s.landslideElapsed = 0]
    ELSE IF m.s.landslideElapsed >= LANDSLIDE_DURATION
    THEN LET m1 == S3transmitAlert([m EXCEPT !.s.selectedAlertIndex = LANDSLIDE_INDEX], oks)
             m2 == [m1 EXCEPT !.s.currentScreen = "SCREEN_RESULT",
                              !.s.lastTransmitSuccess = TRUE]
             m3 == S3drawResultScreen(m2, LANDSLIDE_FEEDBACK)
         IN  [m3 EXCEPT !.s.landslideDetecting = FALSE]
    ELSE m

S3handleMenuInput(m, key) ==
    LET s == m.s
        i1 == CASE key = "1" -> 0
                [] key = "2" -> 2
                [] key = "3" -> 4
                [] key \in {"5", "6"} -> 5
                [] key = "7" -> 10
                [] key = "C" -> 1
                [] key \in {"4", "8", "9"} -> Ord(key) - Ord("1")
                [] key = "0" -> 9
                [] OTHER -> s.selectedAlertIndex
        s1 == [s EXCEPT !.selectedAlertIndex = i1]
        s2 == CASE key \in {"A", "6"} ->
                     S3updateMenuScroll([s1 EXCEPT !.selectedAlertIndex =
                         IF i1 > 0 THEN i1 - 1 ELSE ALERT_COUNT - 1])
                [] key \in {"B", "9"} ->
                     S3updateMenuScroll([s1 EXCEPT !.selectedAlertIndex =
                         IF i1 < ALERT_COUNT - 1 THEN i1 + 1 ELSE 0])
                [] key \in {"*", "4"} -> [s1 EXCEPT !.currentScreen = "SCREEN_CONFIRM"]
                [] key = "#" -> [s1 EXCEPT !.currentScreen = "SCREEN_SYSTEM_INFO"]
                [] key = "D" -> [s1 EXCEPT !.manualPage = 0,
                                           !.currentScreen = "SCREEN_USER_MANUAL"]
                [] OTHER -> s1
    IN  [m EXCEPT !.s = s2]

S3handleConfirmInput(m, key, oks) ==
    IF key = "*"
    THEN LET m1 == S3transmitAlert(m, oks)
             m2 == [m1 EXCEPT !.s.lastTransmitSuccess = m1.ret,
                              !.s.retryCount = 0,
                              !.s.currentScreen = "SCREEN_RESULT"]
         IN  S3drawResultScreen(m2, 0)
    ELSE IF key = "#" THEN [m EXCEPT !.s.currentScreen = "SCREEN_MENU"]
    ELSE m

S3handleResultInput(m, key, oks) ==
    IF m.s.lastTransmitSuccess
    THEN [m EXCEPT !.s.currentScreen = "SCREEN_MENU"]
    ELSE IF key = "*" /\ m.s.retryCount < MAX_RETRY_ATTEMPTS - 1
    THEN LET m1 == S3transmitAlert([m EXCEPT !.s.retryCount = @ + 1], oks)
             m2 == [m1 EXCEPT !.s.lastTransmitSuccess = m1.ret,
                              !.s.currentScreen = "SCREEN_RESULT"]
         IN  S3drawResultScreen(m2, 0)
    ELSE IF key = "#"
    THEN [m EXCEPT !.s.retryCount = 0, !.s.currentScreen = "SCREEN_MENU"]
    ELSE m

S3handleManualInput(m, key) ==
    IF key = "A" /\ m.s.manualPage > 0
    THEN [m EXCEPT !.s.manualPage = @ - 1]
    ELSE IF key = "B" /\ m.s.manualPage < S3_MANUAL_TOTAL_PAGES - 1
    THEN [m EXCEPT !.s.manualPage = @ + 1]
    ELSE IF key \in {"#", "*"}
    THEN [m EXCEPT !.s.currentScreen = "SCREEN_MENU"]
    ELSE m

S3handleKeyPress(m, key, oks) ==
    CASE m.s.currentScreen = "SCREEN_MENU" -> S3handleMenuInput(m, key)
      [] m.s.currentScreen = "SCREEN_CONFIRM" -> S3handleConfirmInput(m, key, oks)
      [] m.s.currentScreen = "SCREEN_RESULT" -> S3handleResultInput(m, key, oks)
      [] m.s.currentScreen = "SCREEN_SYSTEM_INFO" ->
             [m EXCEPT !.s.currentScreen = "SCREEN_MENU"]
      [] m.s.currentScreen = "SCREEN_USER_MANUAL" -> S3handleManualInput(m, key)
      [] OTHER -> m

\* The for loop over the keys keypad.getKeys() reports as newly PRESSED.
RECURSIVE S3handleKeys(_, _, _)
S3handleKeys(m, keys, oks) ==
    IF keys = <<>> THEN m
    ELSE S3handleKeys(S3handleKeyPress(m, Head(keys), oks), Tail(keys), oks)

\* loop(): now is read first, then checkLandslide() runs, then the switch on
\* currentScreen.  In Result the age of the screen is now - resultStartTime in
\* unsigned long; case SCREEN_RESULT falls through to the key handling, case
\* SCREEN_BOOT does not.
S3loop(s, lastSend, high, keys, oks) ==
    LET m1 == checkLandslide(S3Machine(s, lastSend), high, oks)
    IN  CASE m1.s.currentScreen = "SCREEN_BOOT" ->
                 IF m1.s.bootElapsed >= S3_BOOT_DISPLAY_TIME
                 THEN [m1 EXCEPT !.s.currentScreen = "SCREEN_MENU"]
                 ELSE m1
          [] m1.s.currentScreen = "SCREEN_RESULT" ->
                 LET m2 == IF /\ m1.s.lastTransmitSuccess
                              /\ ULongDiffAtLeast(m1.s.resultElapsed, m1.ahead,
                                                  S3_RESULT_SUCCESS_TIME)
                           THEN [m1 EXCEPT !.s.currentScreen = "SCREEN_MENU",
                                           !.dismissed = TRUE]
                           ELSE m1
                 IN  S3handleKeys(m2, keys, oks)
          [] m1.s.currentScreen \in {"SCREEN_MENU", "SCREEN_CONFIRM",
                                     "SCREEN_SYSTEM_INFO", "SCREEN_USER_MANUAL"} ->
                 S3handleKeys(m1, keys, oks)
          [] OTHER -> m1

\* Timers that are not running read 0.
S3Settle(s) ==
    [s EXCEPT !.bootElapsed = IF s.currentScreen = "SCREEN_BOOT" THEN @ ELSE 0,
              !.resultElapsed = IF s.currentScreen = "SCREEN_RESULT" THEN @ ELSE 0,
              !.landslideElapsed = IF s.landslideDetecting THEN @ ELSE 0]

S3Quiet == [lastSend |-> "none", drawn |-> <<>>, dismissed |-> FALSE]

\* The keys pressed in the runs explored: send and back, a digit shortcut and
\* the manual.
S3Keys == {"*", "#", "7", "D"}

\* Keys that can be reported together by one getKeys() scan.
S3ChordKeys == {"*", "#"}

\* The landslide watch sends at most once in an iteration and each of the
\* keys handled after it in Menu at most once more.
S3MaxSendsPerLoop == 2

S3Step(high, keys) ==
    /\ \E oks \in [1..S3MaxSendsPerLoop -> BOOLEAN] :
          LET m == S3loop(tx, txIo.lastSend, high, keys, oks)
          IN  /\ m.s.totalTransmissions <= S3MaxTransmissions
              /\ tx' = S3Settle(m.s)
              /\ txIo' = [lastSend |-> m.lastSend, drawn |-> m.drawn,
                          dismissed |-> m.dismissed]
    /\ RxUnchanged
    /\ UNCHANGED <<codec, pushed>>

S3LoopIdle == \E high \in BOOLEAN : S3Step(high, <<>>)

S3LoopKey == \E high \in BOOLEAN : \E key \in S3Keys : S3Step(high, <<key>>)

S3LoopChord == \E high \in BOOLEAN : \E a, b \in S3ChordKeys : S3Step(high, <<a, b>>)

\* Time passes between two iterations: each running timer may reach its
\* threshold.  The boot timer started in setup(), before any other, so it has
\* run out whenever the longer landslide timer has.
S3Tick ==
    /\ \E b, r, l \in BOOLEAN :
          /\ (l /\ tx.landslideDetecting /\ tx.currentScreen = "SCREEN_BOOT") => b
          /\ tx' = [tx EXCEPT
                      !.bootElapsed = IF b /\ tx.currentScreen = "SCREEN_BOOT"
                                      THEN NextThreshold(@, {S3_BOOT_DISPLAY_TIME}) ELSE @,
                      !.resultElapsed = IF r /\ tx.currentScreen = "SCREEN_RESULT"
                                        THEN NextThreshold(@, {S3_RESULT_SUCCESS_TIME}) ELSE @,
                      !.landslideElapsed = IF l /\ tx.landslideDetecting
                                           THEN NextThreshold(@, {LANDSLIDE_DURATION}) ELSE @]
    /\ tx' # tx
    /\ txIo' = [txIo EXCEPT !.drawn = <<>>, !.dismissed = FALSE]
    /\ RxUnchanged
    /\ UNCHANGED <<codec, pushed>>

InitS3 ==
    /\ \E loraOk, mpuOk \in BOOLEAN : tx = S3AfterSetup(loraOk, mpuOk)
    /\ txIo = S3Quiet
    /\ RxParked
    /\ HarnessParked

SpecS3 == InitS3 /\ [][S3LoopIdle \/ S3LoopKey \/ S3LoopChord \/ S3Tick]_vars

InitHist == TxParked /\ RxParked /\ HarnessParked

TxNext == TxLoopKeypad \/ TxLoopSerial \/ TxLoopIdle \/ TxTick

RxNext ==
    \/ RxLoopIdle \/ RxLoopButton \/ RxLoopRadio \/ RxLoopSerial \/ RxLoopHttp
    \/ RxLoopPortalRadio \/ RxTick \/ RxPowerCycle

TxNavNext == TxNavKeypad \/ TxNavSerial \/ TxLoopIdle \/ TxTick

\* The transmitter with an operator who only navigates, each key recorded.
SpecTxNav == InitTx /\ [][TxNavNext]_vars

\* The transmitter alone.
SpecTx == InitTx /\ [][TxNext]_vars

TxLiveNext == TxLiveKeypad \/ TxLiveSerial \/ TxLoopIdle \/ TxTick

\* The transmitter with its scheduling: the Arduino runtime calls loop() again
\* and again, and time passes.
LiveSpecTx == InitTx /\ [][TxLiveNext]_vars /\ WF_vars(TxLoopIdle) /\ WF_vars(TxTick)

\* The receiver alone.
SpecRx == InitRx /\ [][RxNext]_vars

\* Either device alone: the transmitter runs while the receiver has not left
\* its state after setup(), the receiver while the transmitter has not.
InitEither == ((TxInit /\ RxParked) \/ (RxInit /\ TxParked)) /\ HarnessParked

TxTurn == RxParked /\ TxNext

RxTurn == TxParked /\ RxNext

SpecEither == InitEither /\ [][TxTurn \/ RxTurn]_vars

\* The decoders of the receiver given the same texts.
SpecDecode == InitDecode /\ [][DecodeRadio \/ DecodeSerial \/ DecodeIli]_vars

\* Encoder and decoder back to back, for every device id and alert code.
SpecCodec == InitCodec /\ [][CodecEncode \/ CodecDecode]_vars

\* The history buffer driven directly.
SpecHist == InitHist /\ [][HistPush]_vars

-----------------------------------------------------------------------------
(* Properties                                                              *)

\* What of the receiver a discarded packet must leave alone: the screen, the
\* displayed alert, the alert timer, the history and the alert counter.
DisplayAndHistory(s) ==
    <<s.currentScreen, s.lastDeviceId, s.lastAlertIndex, s.lastRssi, s.alertElapsed,
      s.alertHistory, s.historyCount, s.totalAlertsReceived>>

\* The last iteration read the radio, and the payload was its only input.
OnlyRadio == rxIn.parsed /\ rxIn.alone /\ rxIn.radio # NoPacket

\* The payload's text after its first comma (the payload itself when it has
\* none).
CodeText(raw) == SubstringFrom(raw, IndexOf(raw, ",") + 1)

\* The payload's text before its first comma, without the "TX" prefix.
IdText(raw) ==
    LET id == Substring(raw, 0, IndexOf(raw, ","))
    IN  IF StartsWith(id, <<"T", "X">>) THEN SubstringFrom(id, 2) ELSE id

HasComma(raw) == IndexOf(raw, ",") >= 0

\* The text is a decimal numeral.
IsNumeral(text) == text # <<>> /\ \A i \in 1..Len(text) : IsDigit(text[i])

\* The payload has an ID and its code substring denotes an integer outside
\* 0..14.
OutOfRangeCode(raw) ==
    /\ HasComma(raw) /\ IdText(raw) # <<>>
    /\ IsNumeral(CodeText(raw))
    /\ DigitsValue(CodeText(raw), 0) >= ALERT_COUNT

\* The payload has no comma, or nothing before the comma.
Malformed(raw) == raw # NoPacket /\ (~HasComma(raw) \/ IdText(raw) = <<>>)

\* The payload has an ID and a comma and nothing after the comma.
EmptyCode(raw) == HasComma(raw) /\ IdText(raw) # <<>> /\ CodeText(raw) = <<>>

\* The newest record of the history.
Newest(s) == s.alertHistory[s.historyCount]

\* C1 (round trip).  For every device id in 1..MaxDeviceId and every alert code
\* in 0..14, parseLoRaPacket accepts the packet the transmitter builds and
\* decodes exactly that device id and alert code.
C1_RoundTrip ==
    codec.pc = "done" =>
        /\ codec.out.ok
        /\ codec.out.deviceId = codec.deviceId
        /\ codec.out.alertIndex = codec.alertCode

\* The largest three-digit id with the last catalog entry has made the trip.
C1_Witness ==
    /\ codec.pc = "done"
    /\ codec.deviceId = 999
    /\ codec.alertCode = ALERT_COUNT - 1
    /\ codec.packet = <<"T", "X", "9", "9", "9", ",", "O">>
    /\ codec.out.ok

\* C2 (fail-open clamp).  Whenever an iteration reads from the radio a payload
\* whose code substring denotes an integer outside 0..14, the packet is
\* accepted with alert index 14, and the iteration ends with that alert on the
\* Alert screen and as the newest record of the history.
C2_FailOpenClamp ==
    (rxIn.parsed /\ OutOfRangeCode(rxIn.radio)) =>
        /\ rxOut.alert.ok
        /\ rxOut.alert.alertIndex = ALERT_COUNT - 1
        /\ rx.currentScreen = "SCREEN_ALERT"
        /\ rx.lastAlertIndex = ALERT_COUNT - 1
        /\ rx.lastDeviceId = rxOut.alert.deviceId
        /\ rx.historyCount >= 1
        /\ Newest(rx) = [deviceId |-> rxOut.alert.deviceId,
                         alertIndex |-> ALERT_COUNT - 1,
                         rssi |-> rxOut.alert.rssi]

\* "TX007,99" has been received and is shown as alert 14 of device 7.
C2_Witness ==
    /\ rxIn.parsed
    /\ rxIn.radio = <<"T", "X", "0", "0", "7", ",", "9", "9">>
    /\ rx.currentScreen = "SCREEN_ALERT"
    /\ rx.lastDeviceId = 7
    /\ rx.lastAlertIndex = 14
    /\ Newest(rx).alertIndex = 14

\* C3 (malformed rejection).  An iteration whose only input is a radio payload
\* with no comma or with nothing before the comma, and in which the alert
\* display time has not run out, decodes no alert and leaves the screen, the
\* displayed alert, the alert timer, the history and totalAlertsReceived as
\* they were.
C3_MalformedRejected ==
    [][(OnlyRadio' /\ Malformed(rxIn'.radio) /\ ~shouldReturnToIdle(rx)) =>
          /\ ~rxOut'.alert.ok
          /\ rxOut'.api = <<>>
          /\ DisplayAndHistory(rx') = DisplayAndHistory(rx)]_vars

\* A payload with an empty ID has been discarded while an alert was shown.
C3_Witness ==
    /\ OnlyRadio
    /\ rxIn.radio = <<"T", "X", ",", "A">>
    /\ rx.currentScreen = "SCREEN_ALERT"
    /\ rx.historyCount = 1
    /\ ~rxOut.alert.ok

\* C4 (empty code is malformed).  An iteration whose only input is a radio
\* payload with nothing after the comma, and in which the alert display time
\* has not run out, decodes no alert, relays nothing and leaves the screen, the
\* displayed alert and the history as they were.
C4_EmptyCodeDiscarded ==
    [][(OnlyRadio' /\ EmptyCode(rxIn'.radio) /\ ~shouldReturnToIdle(rx)) =>
          /\ ~rxOut'.alert.ok
          /\ rxOut'.api = <<>>
          /\ DisplayAndHistory(rx') = DisplayAndHistory(rx)]_vars

\* C5 (history bound).  After n calls of addToHistory, historyCount is
\* min(n, 10) and alertHistory holds the last min(n, 10) records pushed, oldest
\* first.
C5_HistoryBound ==
    LET n == Len(pushed)
    IN  /\ rx.historyCount >= 0
        /\ rx.historyCount <= HISTORY_MAX_ITEMS
        /\ rx.historyCount = Min(n, HISTORY_MAX_ITEMS)
        /\ \A i \in 1..rx.historyCount :
              rx.alertHistory[i] = pushed[n - rx.historyCount + i]

\* Fifteen records were pushed, the sixth differs from the first, and the
\* buffer starts with the sixth.
C5_Witness ==
    /\ Len(pushed) = 15
    /\ pushed[1] # pushed[6]
    /\ rx.historyCount = HISTORY_MAX_ITEMS
    /\ rx.alertHistory[1] = pushed[6]
    /\ rx.alertHistory[HISTORY_MAX_ITEMS] = pushed[15]

\* C6 (retry bound).  retryCount is always within 0..MAX_RETRY_ATTEMPTS-1,
\* and once MAX_RETRY_ATTEMPTS send attempts in a row have failed for one
\* confirmed alert, retryCount is MAX_RETRY_ATTEMPTS-1, so that no retry is
\* left; no confirmed alert gets more than MAX_RETRY_ATTEMPTS attempts.
C6_RetryBound ==
    /\ tx.retryCount >= 0
    /\ tx.retryCount <= MAX_RETRY_ATTEMPTS - 1
    /\ txIo.failRun <= MAX_RETRY_ATTEMPTS
    /\ txIo.failRun = MAX_RETRY_ATTEMPTS =>
          /\ tx.retryCount = MAX_RETRY_ATTEMPTS - 1
          /\ ~(tx.retryCount < MAX_RETRY_ATTEMPTS - 1)

\* The initial send and two retries have failed with the radio answering.
C6_Witness ==
    /\ txIo.failRun = MAX_RETRY_ATTEMPTS
    /\ tx.currentScreen = "SCREEN_RESULT"
    /\ ~tx.lastTransmitSuccess
    /\ tx.loraInitialized
    /\ tx.totalTransmissions = 3
    /\ tx.successfulTransmissions = 0

\* C7 (menu wraparound).  A 'B' read in Menu moves the selection from 14 to 0
\* and otherwise one down the list; an 'A' read in Menu moves it from 0 to 14
\* and otherwise one up; the screen stays Menu.
C7_MenuWraparound ==
    [][(tx.currentScreen = "SCREEN_MENU" /\ txIo'.screen = "SCREEN_MENU") =>
          /\ txIo'.key = "B" =>
                /\ tx'.selectedAlertIndex =
                      IF tx.selectedAlertIndex = 14 THEN 0 ELSE tx.selectedAlertIndex + 1
                /\ tx'.currentScreen = "SCREEN_MENU"
          /\ txIo'.key = "A" =>
                /\ tx'.selectedAlertIndex =
                      IF tx.selectedAlertIndex = 0 THEN 14 ELSE tx.selectedAlertIndex - 1
                /\ tx'.currentScreen = "SCREEN_MENU"]_vars

\* 'A' was read in Menu and the selection is the last entry, the list scrolled
\* to its end, as after a wrap from the first entry.
C7_Witness ==
    /\ txIo.screen = "SCREEN_MENU"
    /\ txIo.key = "A"
    /\ tx.currentScreen = "SCREEN_MENU"
    /\ tx.selectedAlertIndex = 14
    /\ tx.menuScrollOffset = 10

PacketTX003A == <<"T", "X", "0", "0", "3", ",", "A">>

\* The step is a send from Confirm with alert 0 selected, the radio
\* initialised and LoRa.endPacket() succeeding.
HappySend ==
    /\ tx.currentScreen = "SCREEN_CONFIRM"
    /\ tx.selectedAlertIndex = 0
    /\ tx.loraInitialized
    /\ txIo'.attempts = <<TRUE>>

\* The success result is on the screen.
ShowingSuccess == tx.currentScreen = "SCREEN_RESULT" /\ tx.lastTransmitSuccess

\* C8 (happy path).  With the radio initialised the transmitter leaves Boot
\* for Menu once the boot interval has passed; a confirmed send of alert 0
\* that succeeds puts exactly the packet "TX003,A" on the air, shows Result
\* with success and adds exactly 1 to totalTransmissions and to
\* successfulTransmissions; while the success result is shown the counters do
\* not move and the only screen that can follow without a key is Menu; and
\* with no further key the machine eventually is back in Menu.
C8_HappyPath ==
    /\ (tx.currentScreen = "SCREEN_BOOT" /\ tx.loraInitialized)
           ~> (tx.currentScreen = "SCREEN_MENU")
    /\ [][HappySend =>
             /\ txIo'.air = <<PacketTX003A>>
             /\ tx'.currentScreen = "SCREEN_RESULT"
             /\ tx'.lastTransmitSuccess
             /\ tx'.totalTransmissions = tx.totalTransmissions + 1
             /\ tx'.successfulTransmissions = tx.successfulTransmissions + 1]_vars
    /\ [][(ShowingSuccess /\ ~txIo'.resultKey) =>
             /\ tx'.currentScreen \in {"SCREEN_RESULT", "SCREEN_MENU"}
             /\ tx'.totalTransmissions = tx.totalTransmissions
             /\ tx'.successfulTransmissions = tx.successfulTransmissions]_vars
    /\ ShowingSuccess ~> (tx.currentScreen = "SCREEN_MENU" \/ txIo.resultKey)

\* The first send of a run succeeded and the success timeout, not a key,
\* brought the machine back to Menu.
C8_Witness ==
    /\ tx.currentScreen = "SCREEN_MENU"
    /\ tx.loraInitialized
    /\ tx.selectedAlertIndex = 0
    /\ tx.totalTransmissions = 1
    /\ tx.successfulTransmissions = 1
    /\ tx.lastTransmitSuccess
    /\ ~tx.ledGreen
    /\ ~txIo.resultKey
    /\ txIo.attempts = <<>>

\* The alert on the screen, as a history record.
Shown(s) == [deviceId |-> s.lastDeviceId, alertIndex |-> s.lastAlertIndex, rssi |-> s.lastRssi]

\* C9 (packet interruption).  When an iteration that starts in Alert with the
\* display time not run out decodes a valid packet, then at its end the
\* displayed alert is the decoded one, the screen is still Alert, and the two
\* newest records of the history are the alert shown before and the decoded
\* one, in that order.
C9_PacketInterruption ==
    [][(/\ rx.currentScreen = "SCREEN_ALERT"
        /\ ~rx.portalActive
        /\ ~shouldReturnToIdle(rx)
        /\ rxOut'.alert.ok) =>
          /\ Shown(rx') = [deviceId |-> rxOut'.alert.deviceId,
                           alertIndex |-> rxOut'.alert.alertIndex,
                           rssi |-> rxOut'.alert.rssi]
          /\ rx'.currentScreen = "SCREEN_ALERT"
          /\ rx'.historyCount >= 2
          /\ rx'.alertHistory[rx'.historyCount] = Shown(rx')
          /\ rx'.alertHistory[rx'.historyCount - 1] = Shown(rx)]_vars

\* A second, different alert was decoded from the radio while the first was
\* shown.
C9_Witness ==
    /\ rx.currentScreen = "SCREEN_ALERT"
    /\ rxIn.parsed /\ rxIn.radio # NoPacket
    /\ rxOut.alert.ok
    /\ rx.historyCount = 2
    /\ rx.alertHistory[1] # rx.alertHistory[2]
    /\ rx.alertHistory[2] = Shown(rx)
    /\ rx.totalAlertsReceived = 2

\* C10 (provisioning).  With no stored credentials, a press that has lasted
\* LONG_PRESS_DURATION in Idle or Alert makes the portal active without
\* restarting; a POST /save with a non-empty ssid at the active portal is
\* answered 200, leaves {ssid, password} in the Preferences and restarts the
\* device, which comes up with the posted credentials; and the device never
\* restarts with credentials other than the stored ones.
C10_Provisioning ==
    [][/\ (/\ rx.storedSSID = ""
           /\ ~rx.portalActive
           /\ rx.currentScreen \in {"SCREEN_IDLE", "SCREEN_ALERT"}
           /\ LongPressDue(rx)
           /\ rxOut'.longPress) =>
             (rx'.portalActive /\ ~rxOut'.restarted /\ nvs' = nvs)
       /\ (/\ rx.portalActive
           /\ rxIn'.http.method = "POST"
           /\ rxIn'.http.ssid # "") =>
             /\ rxOut'.http = 200
             /\ nvs' = [ssid |-> rxIn'.http.ssid, password |-> rxIn'.http.password]
             /\ rxOut'.restarted
             /\ rx'.currentScreen = "SCREEN_BOOT"
             /\ rx'.storedSSID = rxIn'.http.ssid
             /\ rx'.storedPassword = rxIn'.http.password
       /\ rxOut'.restarted =>
             /\ rxIn'.http.method = "POST"
             /\ nvs'.ssid # ""
             /\ rx'.storedSSID = nvs'.ssid
             /\ rx'.storedPassword = nvs'.password]_vars

\* The device has restarted on the credentials posted to the portal.
C10_Witness ==
    /\ rxOut.restarted
    /\ rxIn.http = [method |-> "POST", ssid |-> "Home", password |-> "secret"]
    /\ nvs = [ssid |-> "Home", password |-> "secret"]
    /\ rx.storedSSID = "Home"
    /\ rx.currentScreen = "SCREEN_BOOT"
    /\ ~rx.portalActive

\* The result of a failed send is on screen.
FailedResult(s) == s.currentScreen = "SCREEN_RESULT" /\ ~s.lastTransmitSuccess

\* C11: while the result of a failed send is shown, an iteration of loop()
\* without a key changes nothing however long the result has been shown; with
\* a key the screen afterwards is Result or Menu, it is Menu exactly for the
\* menu key '#', and a send attempt is made exactly for the retry key '*' while
\* a retry is left.
C11_FailedResultNeedsKey ==
    FailedResult(tx) =>
        /\ TxLoopBody(tx, NoKey, NoKey, FALSE) = Quiet(tx)
        /\ \A key \in KeypadKeys, endPacketOk \in BOOLEAN :
              LET r == TxLoopBody(tx, key, NoKey, endPacketOk)
              IN  /\ r.s.currentScreen \in {"SCREEN_RESULT", "SCREEN_MENU"}
                  /\ (r.s.currentScreen = "SCREEN_MENU") <=> (key = "#")
                  /\ (r.attempts # <<>>) <=>
                        (key = "*" /\ tx.retryCount < MAX_RETRY_ATTEMPTS - 1)
                  /\ key \notin {"*", "#"} => r = Quiet(tx)

\* A failed result still shown after RESULT_SUCCESS_TIME has passed.
C11_Witness ==
    /\ FailedResult(tx)
    /\ tx.resultElapsed >= RESULT_SUCCESS_TIME
    /\ txIo.attempts = <<>>

\* The payload has the packet format: a numeric ID, a comma, a code.
ValidPacket(raw) == HasComma(raw) /\ IsNumeral(IdText(raw)) /\ CodeText(raw) # <<>>

\* The newest record of the history is the one decoded from the payload.
RecordedNewest(s, raw) ==
    /\ s.historyCount > 0
    /\ Newest(s).deviceId = parseLoRaPacket(raw, 0).deviceId
    /\ Newest(s).alertIndex = parseLoRaPacket(raw, 0).alertIndex

\* C12: a valid packet waiting in the radio during an iteration of loop() is,
\* when the iteration ends, the newest record of the history, whatever is on
\* screen, unless the iteration did not read the radio and the radio was not
\* re-initialised, so that the packet is still waiting there.
C12_NoPacketLost ==
    [][ValidPacket(rxIn'.radio) =>
          \/ RecordedNewest(rx', rxIn'.radio)
          \/ ~rxIn'.parsed /\ ~rxOut'.restarted]_vars

\* C13: when the portal button, pressed in Idle or Alert, is released before
\* LONG_PRESS_DURATION in an iteration that decodes no alert and in which the
\* alert display time has not run out, the screen, the displayed alert, the
\* alert timer, the history, historyCount, totalAlertsReceived and portalActive
\* are after the iteration what they were before it.
C13_PartialPressNoOp ==
    [][(/\ ~rx.portalActive
        /\ rx.currentScreen \in {"SCREEN_IDLE", "SCREEN_ALERT"}
        /\ rx.buttonPressed
        /\ rx.buttonElapsed < LONG_PRESS_DURATION
        /\ ~shouldReturnToIdle(rx)
        /\ rxIn'.parsed
        /\ ~rx'.buttonPressed
        /\ ~rxOut'.alert.ok) =>
          /\ DisplayAndHistory(rx') = DisplayAndHistory(rx)
          /\ rx'.portalActive = rx.portalActive]_vars

\* C14: when the portal is active and WIFI_PORTAL_TIMEOUT has elapsed since it
\* started, an iteration of loop() with the button up and no HTTP request
\* leaves portalActive false, whatever credentials are stored and whether or
\* not the WiFi connection can be made.
C14_PortalTimeout ==
    [][(/\ rx.portalActive
        /\ rx.portalElapsed >= WIFI_PORTAL_TIMEOUT
        /\ ~rx.buttonPressed
        /\ RxLoopIdle) => ~rx'.portalActive]_vars

\* C15: every iteration of loop() that enters Sending (from Confirm or by a
\* retry) increases totalTransmissions by exactly 1, and
\* successfulTransmissions by 1 when the send succeeded and by 0 otherwise; no
\* step decreases either counter; successfulTransmissions never exceeds
\* totalTransmissions.
C15_CounterBookkeeping ==
    [][/\ txIo'.attempts # <<>> =>
             /\ tx'.totalTransmissions = tx.totalTransmissions + 1
             /\ tx'.successfulTransmissions =
                   tx.successfulTransmissions + (IF txIo'.attempts[1] THEN 1 ELSE 0)
       /\ tx'.totalTransmissions >= tx.totalTransmissions
       /\ tx'.successfulTransmissions >= tx.successfulTransmissions
       /\ tx'.successfulTransmissions <= tx'.totalTransmissions]_vars

\* One iteration of loop() in which the cancel key '#' is read (from the
\* keypad, or as 'X' from the serial port), from globals s.
CancelIteration(s, endPacketOk) ==
    {TxLoopBody(s, "#", NoKey, endPacketOk), TxLoopBody(s, NoKey, "X", endPacketOk)}

\* C16: in Confirm, an iteration of loop() that reads the cancel key '#' ends
\* in Menu, makes no send attempt and puts nothing on the air, and leaves
\* totalTransmissions, successfulTransmissions, lastTransmitSuccess and
\* selectedAlertIndex as they were, whatever the radio would have answered;
\* and every step from Confirm to Menu is such a step.
C16_CancelSendsNothing ==
    /\ [](tx.currentScreen = "SCREEN_CONFIRM" =>
            \A endPacketOk \in BOOLEAN :
                \A r \in CancelIteration(tx, endPacketOk) :
                    /\ r.s.currentScreen = "SCREEN_MENU"
                    /\ r.air = <<>>
                    /\ r.attempts = <<>>
                    /\ r.s.totalTransmissions = tx.totalTransmissions
                    /\ r.s.successfulTransmissions = tx.successfulTransmissions
                    /\ r.s.lastTransmitSuccess = tx.lastTransmitSuccess
                    /\ r.s.selectedAlertIndex = tx.selectedAlertIndex)
    /\ [][(tx.currentScreen = "SCREEN_CONFIRM" /\ tx'.currentScreen = "SCREEN_MENU") =>
            /\ tx' \in {TxSettle(r.s) : r \in CancelIteration(tx, FALSE)}
            /\ txIo'.air = <<>>
            /\ txIo'.attempts = <<>>
            /\ tx'.totalTransmissions = tx.totalTransmissions
            /\ tx'.successfulTransmissions = tx.successfulTransmissions
            /\ tx'.lastTransmitSuccess = tx.lastTransmitSuccess
            /\ tx'.selectedAlertIndex = tx.selectedAlertIndex]_vars

\* Back in Menu after a cancel: item 10 was chosen with the digit key, which
\* leaves the menu scrolled to the top, and no send was ever made although the
\* radio works, so Confirm was left with the cancel key.
C16_Witness ==
    /\ tx.currentScreen = "SCREEN_MENU"
    /\ tx.loraInitialized
    /\ tx.totalTransmissions = 0
    /\ tx.selectedAlertIndex = 9
    /\ tx.menuScrollOffset = 0
    /\ txIo.attempts = <<>>

\* C17: when Alert is shown and ALERT_DISPLAY_TIME has elapsed since the alert
\* was drawn, an iteration of loop() with the button up, no press in progress
\* and nothing received ends in Idle; an iteration in Alert that decodes an
\* alert ends in Alert with the timer restarted, also when the old timer had
\* run out; and Alert is left for Idle only when the display time has run out
\* (before the iteration, or during a long press's blocking WiFi connection).
C17_AlertTimer ==
    [][/\ (/\ rx.currentScreen = "SCREEN_ALERT"
           /\ rx.alertElapsed >= ALERT_DISPLAY_TIME
           /\ ~rx.buttonPressed
           /\ RxLoopIdle) => rx'.currentScreen = "SCREEN_IDLE"
       /\ (/\ rx.currentScreen = "SCREEN_ALERT"
           /\ ~rx.portalActive
           /\ rxOut'.alert.ok) =>
             (rx'.currentScreen = "SCREEN_ALERT" /\ rx'.alertElapsed = 0)
       /\ (/\ rx.currentScreen = "SCREEN_ALERT"
           /\ rx'.currentScreen = "SCREEN_IDLE") =>
             (rx.alertElapsed >= ALERT_DISPLAY_TIME \/ rxOut'.longPress)]_vars

\* C18: when LoRa initialisation failed in setup(), loraInitialized stays
\* false, no step puts a packet on the air or increases
\* successfulTransmissions, every send attempt fails and ends in Result with
\* lastTransmitSuccess false, and the confirm key in Confirm and the retry key
\* in Result (while a retry is left) are such attempts even if the radio would
\* have answered with success.
C18_RadioInitFailure ==
    [][~tx.loraInitialized =>
          /\ ~tx'.loraInitialized
          /\ txIo'.air = <<>>
          /\ tx'.successfulTransmissions = tx.successfulTransmissions
          /\ tx'.successfulTransmissions = 0
          /\ txIo'.attempts # <<>> =>
                /\ txIo'.attempts = <<FALSE>>
                /\ tx'.currentScreen = "SCREEN_RESULT"
                /\ ~tx'.lastTransmitSuccess
          /\ (\/ tx.currentScreen = "SCREEN_CONFIRM"
              \/ tx.currentScreen = "SCREEN_RESULT"
                 /\ tx.retryCount < MAX_RETRY_ATTEMPTS - 1) =>
                \E r \in {TxLoopBody(tx, "*", NoKey, TRUE)} :
                    /\ r.attempts = <<FALSE>>
                    /\ r.air = <<>>
                    /\ r.s.currentScreen = "SCREEN_RESULT"
                    /\ ~r.s.lastTransmitSuccess]_vars

\* With the radio not initialised, the confirm key and both retries have
\* failed.
C18_Witness ==
    /\ ~tx.loraInitialized
    /\ tx.currentScreen = "SCREEN_RESULT"
    /\ ~tx.lastTransmitSuccess
    /\ txIo.attempts = <<FALSE>>
    /\ txIo.failRun = MAX_RETRY_ATTEMPTS
    /\ tx.successfulTransmissions = 0

\* C19: in every iteration of the transmitter's loop(), whatever key is read
\* and whatever the radio answers, currentScreen changes its value at most
\* once.
C19_OneTransitionPerIteration ==
    [][\A keypadKey \in KeypadKeys \cup {NoKey}, serialChar \in SerialChars \cup {NoKey},
          endPacketOk \in BOOLEAN :
          (\E r \in {TxLoopBody(tx, keypadKey, serialChar, endPacketOk)} :
              /\ tx' = TxSettle(r.s)
              /\ txIo'.attempts = r.attempts
              /\ txIo'.air = r.air) =>
            Len(ScreensVisited(tx, keypadKey, serialChar, endPacketOk)) <= 1]_vars

\* The dashboard push for the alert the iteration decoded.
PushOf(alert) ==
    [DID |-> alert.deviceId, message_code |-> alert.alertIndex, RSSI |-> alert.rssi]

\* C20 as claimed: every iteration that decodes an alert issues the dashboard
\* push with the alert's deviceId, alert index and rssi.
C20_EveryAlertRelayed ==
    [][rxOut'.alert.ok => rxOut'.api = <<PushOf(rxOut'.alert)>>]_vars

\* C20 as amended: an iteration that decodes an alert, in Idle or in Alert,
\* issues exactly one dashboard push with the alert's deviceId, alert index
\* and rssi, made before the alert is drawn, when wifiConnected is set and
\* WiFi.status() is WL_CONNECTED; otherwise it issues none; either way the
\* alert is displayed and recorded; and no push is made without a decoded
\* alert.
C20_RelayedWhenConnected ==
    [][/\ rxOut'.alert.ok =>
             /\ rxOut'.api = IF rxIn'.online THEN <<PushOf(rxOut'.alert)>> ELSE <<>>
             /\ rxOut'.shownBefore =
                   IF rxIn'.online THEN <<rx'.totalAlertsReceived - 1>> ELSE <<>>
             /\ rx'.currentScreen = "SCREEN_ALERT"
             /\ Shown(rx') = [deviceId |-> rxOut'.alert.deviceId,
                              alertIndex |-> rxOut'.alert.alertIndex,
                              rssi |-> rxOut'.alert.rssi]
             /\ Newest(rx') = Shown(rx')
       /\ ~rxOut'.alert.ok => rxOut'.api = <<>>]_vars

\* A second alert was decoded while the first was shown and was pushed to the
\* dashboard.
C20_Witness ==
    /\ rxOut.alert.ok
    /\ rxIn.online
    /\ rxOut.api = <<PushOf(rxOut.alert)>>
    /\ rx.totalAlertsReceived = 2
    /\ rx.currentScreen = "SCREEN_ALERT"

\* C21: in every reachable state in which the transmitter shows Confirm,
\* retryCount is 0.
C21_ConfirmResetsRetryCount ==
    tx.currentScreen = "SCREEN_CONFIRM" => tx.retryCount = 0

\* C22: a retry (a send attempt made from Result) is made only when fewer than
\* MAX_RETRY_ATTEMPTS attempts have been made, all failed, since the confirm
\* key was pressed, so that one confirmed alert gets at most
\* MAX_RETRY_ATTEMPTS attempts; and once MAX_RETRY_ATTEMPTS have failed, an
\* iteration that reads the retry key (from the keypad, or 's' from the serial
\* port) makes no attempt and changes nothing.
C22_BoundedSends ==
    [][/\ (tx.currentScreen = "SCREEN_RESULT" /\ txIo'.attempts # <<>>) =>
             /\ ~tx.lastTransmitSuccess
             /\ txIo.failRun >= 1
             /\ txIo.failRun + 1 <= MAX_RETRY_ATTEMPTS
             /\ txIo'.failRun \in {0, txIo.failRun + 1}
       /\ (tx.currentScreen = "SCREEN_CONFIRM" /\ txIo'.attempts # <<>>) =>
             txIo'.failRun \in {0, 1}
       /\ (FailedResult(tx) /\ txIo.failRun >= MAX_RETRY_ATTEMPTS) =>
             \A endPacketOk \in BOOLEAN :
                 /\ TxLoopBody(tx, "*", NoKey, endPacketOk) = Quiet(tx)
                 /\ TxLoopBody(tx, NoKey, "s", endPacketOk) = Quiet(tx)]_vars

\* Three attempts have failed and the transmitter has since stayed in Result
\* through an iteration without a send, with the result timer restarted by
\* nothing.
C22_Witness ==
    /\ FailedResult(tx)
    /\ txIo.failRun = MAX_RETRY_ATTEMPTS
    /\ txIo.attempts = <<>>
    /\ tx.resultElapsed = 0
    /\ tx.totalTransmissions = MAX_RETRY_ATTEMPTS

\* C23: in every reachable state in which the transmitter shows Menu, the
\* selected entry lies inside the scroll window and the window inside the list.
C23_HighlightVisible ==
    tx.currentScreen = "SCREEN_MENU" =>
        /\ tx.menuScrollOffset <= tx.selectedAlertIndex
        /\ tx.selectedAlertIndex < tx.menuScrollOffset + VISIBLE_MENU_ITEMS
        /\ 0 <= tx.menuScrollOffset
        /\ tx.menuScrollOffset <= ALERT_COUNT - VISIBLE_MENU_ITEMS

\* The catalog index each digit key stands for.
DigitIndex ==
    [k \in {"1", "2", "3", "4", "5", "6", "7", "8", "9", "0"} |->
        CASE k = "1" -> 0 [] k = "2" -> 1 [] k = "3" -> 2 [] k = "4" -> 3
          [] k = "5" -> 4 [] k = "6" -> 5 [] k = "7" -> 6 [] k = "8" -> 7
          [] k = "9" -> 8 [] k = "0" -> 9]

\* C24: an iteration of loop() that reads a digit key in Menu sets
\* selectedAlertIndex to digit-1 for '1'..'9' and to 9 for '0', ends in
\* Confirm, makes no send attempt and leaves the transmission counters alone.
C24_DigitToIndex ==
    [][(/\ tx.currentScreen = "SCREEN_MENU"
        /\ txIo'.screen = "SCREEN_MENU"
        /\ txIo'.key \in DOMAIN DigitIndex) =>
          /\ tx'.selectedAlertIndex = DigitIndex[txIo'.key]
          /\ tx'.currentScreen = "SCREEN_CONFIRM"
          /\ txIo'.air = <<>>
          /\ txIo'.attempts = <<>>
          /\ TxLoopBody(tx, txIo'.key, NoKey, TRUE).attempts = <<>>
          /\ tx'.totalTransmissions = tx.totalTransmissions
          /\ tx'.successfulTransmissions = tx.successfulTransmissions]_vars

\* The digit '0' was read in Menu and Confirm shows the 10th entry.
C24_Witness ==
    /\ txIo.screen = "SCREEN_MENU"
    /\ txIo.key = "0"
    /\ tx.currentScreen = "SCREEN_CONFIRM"
    /\ tx.selectedAlertIndex = 9

\* The code letters of the catalog.
CodeLetters == {"A", "B", "C", "D", "E", "F", "G", "H", "I", "J", "K", "L", "M", "N", "O"}

\* C25: on the transmitter selectedAlertIndex is always within 0..14 and every
\* packet put on the air is "TX003," followed by a code letter 'A'..'O'; on
\* the receiver the decoded alert, lastAlertIndex and the alertIndex of every
\* record of the history are within 0..14, whether the alert came by radio or
\* from the debug serial port.
C25_AlertCodeResolved ==
    /\ tx.selectedAlertIndex \in 0..(ALERT_COUNT - 1)
    /\ \A i \in 1..Len(txIo.air) :
          /\ Len(txIo.air[i]) = 7
          /\ SubSeq(txIo.air[i], 1, 6) = <<"T", "X", "0", "0", "3", ",">>
          /\ txIo.air[i][7] \in CodeLetters
    /\ rxOut.alert.ok => rxOut.alert.alertIndex \in 0..(ALERT_COUNT - 1)
    /\ rx.lastAlertIndex \in 0..(ALERT_COUNT - 1)
    /\ \A i \in 1..rx.historyCount :
          rx.alertHistory[i].alertIndex \in 0..(ALERT_COUNT - 1)

\* The receiver shows and has recorded the out-of-range radio code 99 as the
\* last catalog entry.
C25_Witness ==
    /\ rxIn.radio = <<"T", "X", "0", "0", "7", ",", "9", "9">>
    /\ rxOut.alert.ok
    /\ rx.lastAlertIndex = ALERT_COUNT - 1
    /\ rx.historyCount = 2
    /\ rx.alertHistory[2].alertIndex = ALERT_COUNT - 1


\* C26: manualPage is always within 0..MANUAL_TOTAL_PAGES-1; a step from Menu
\* into the manual leaves it at 0; in the manual the previous key on page 0
\* and the next key on the last page change nothing, and the select and the
\* cancel key lead to Menu with the page kept.
C26_ManualPaging ==
    /\ [](/\ tx.manualPage \in 0..(MANUAL_TOTAL_PAGES - 1)
          /\ tx.currentScreen = "SCREEN_USER_MANUAL" =>
                \A endPacketOk \in BOOLEAN :
                    /\ tx.manualPage = 0 =>
                          TxLoopBody(tx, "A", NoKey, endPacketOk) = Quiet(tx)
                    /\ tx.manualPage = MANUAL_TOTAL_PAGES - 1 =>
                          TxLoopBody(tx, "B", NoKey, endPacketOk) = Quiet(tx)
                    /\ \A key \in {"#", "*"} :
                          TxLoopBody(tx, key, NoKey, endPacketOk) =
                              Quiet([tx EXCEPT !.currentScreen = "SCREEN_MENU"]))
    /\ [][/\ (tx.currentScreen = "SCREEN_MENU" /\ tx'.currentScreen = "SCREEN_USER_MANUAL") =>
                tx'.manualPage = 0
          /\ (tx.currentScreen = "SCREEN_USER_MANUAL" /\ txIo'.screen = "SCREEN_USER_MANUAL"
              /\ txIo'.key \in {"#", "*"}) =>
                tx'.currentScreen = "SCREEN_MENU"
          /\ (tx.currentScreen = "SCREEN_USER_MANUAL" /\ txIo'.screen = "SCREEN_USER_MANUAL"
              /\ \/ txIo'.key = "A" /\ tx.manualPage = 0
                 \/ txIo'.key = "B" /\ tx.manualPage = MANUAL_TOTAL_PAGES - 1) =>
                tx' = tx]_vars

\* The operator has paged to the last page of the manual and left it with the
\* cancel key.
C26_Witness ==
    /\ tx.currentScreen = "SCREEN_MENU"
    /\ txIo.screen = "SCREEN_USER_MANUAL"
    /\ txIo.key = "#"
    /\ tx.manualPage = MANUAL_TOTAL_PAGES - 1


\* A press that has lasted LONG_PRESS_DURATION is handled in Idle or Alert
\* with the portal closed.
LongPressOutsidePortal ==
    /\ ~rx.portalActive
    /\ rx.currentScreen \in {"SCREEN_IDLE", "SCREEN_ALERT"}
    /\ LongPressDue(rx)
    /\ rxOut'.longPress

\* C27 as stated: a long press handled in Idle or Alert always leaves the
\* portal active, whether or not credentials are stored.
C27_LongPressOpensPortal ==
    [][LongPressOutsidePortal => rx'.portalActive]_vars

\* C27 as the code has it: a long press handled in Idle or Alert leaves the
\* portal active when no credentials are stored or when the connection with
\* the stored credentials fails; when that connection succeeds the receiver is
\* connected and the portal stays closed.
C27_LongPressOpensPortalUnlessConnected ==
    [][LongPressOutsidePortal =>
          /\ rx.storedSSID = "" => rx'.portalActive
          /\ rx'.portalActive <=> ~rx'.wifiConnected
          /\ ~rx'.portalActive => (rx.storedSSID # "" /\ rx'.staLink)
          /\ ~rx'.buttonPressed
          /\ ~rxOut'.restarted /\ nvs' = nvs]_vars

\* The long press was handled with credentials stored, the connection failed
\* and the portal is open.
C27_Witness ==
    /\ rxOut.longPress
    /\ rx.storedSSID # ""
    /\ rx.portalActive
    /\ rx.portalElapsed = 0
    /\ ~rx.wifiConnected
    /\ ~rx.buttonPressed


\* C28: a press that has lasted LONG_PRESS_DURATION, handled while the portal
\* is active and before its timeout, leaves the portal inactive and the
\* receiver in Idle, or in Alert if an alert was showing, whatever credentials
\* are stored and whatever the outcome of the connection attempt.
C28_LongPressExitsPortal ==
    [][(/\ rx.portalActive /\ rx.portalElapsed < WIFI_PORTAL_TIMEOUT
        /\ LongPressDue(rx) /\ rxOut'.longPress) =>
          /\ ~rx'.portalActive
          /\ rx'.currentScreen =
                IF rx.currentScreen = "SCREEN_ALERT" THEN "SCREEN_ALERT" ELSE "SCREEN_IDLE"]_vars


\* C29 as stated: a receiver that has booted without stored credentials has
\* the portal active when it leaves the boot screen, no button involved.
C29_PortalAtBoot ==
    [][(/\ rx.storedSSID = ""
        /\ rx.currentScreen = "SCREEN_BOOT"
        /\ rx'.currentScreen # "SCREEN_BOOT") => rx'.portalActive]_vars

\* C29 as the code has it: a receiver without stored credentials shows the
\* boot screen and leaves it with the portal inactive and not connected, and
\* its portal becomes active only in an iteration that handles a press that
\* has lasted LONG_PRESS_DURATION.
C29_NoPortalWithoutGesture ==
    /\ []((rx.storedSSID = "" /\ rx.currentScreen = "SCREEN_BOOT") =>
             (~rx.portalActive /\ ~rx.wifiConnected))
    /\ [][/\ (/\ rx.storedSSID = ""
              /\ rx.currentScreen = "SCREEN_BOOT"
              /\ rx'.currentScreen # "SCREEN_BOOT") =>
                 (rx'.currentScreen = "SCREEN_IDLE" /\ ~rx'.portalActive /\ ~rx'.wifiConnected)
          /\ (rx.storedSSID = "" /\ ~rx.portalActive /\ rx'.portalActive) =>
                 (LongPressDue(rx) /\ rxOut'.longPress)]_vars

\* A receiver without credentials has booted, shown an alert and is back in
\* Idle with the portal inactive.
C29_Witness ==
    /\ rx.storedSSID = ""
    /\ nvs.ssid = ""
    /\ rx.currentScreen = "SCREEN_IDLE"
    /\ rx.totalAlertsReceived = 1
    /\ ~rx.portalActive
    /\ ~rx.wifiConnected
    /\ ~rxOut.longPress


\* C30: whenever the receiver is in Alert, the red LED is on and the green LED
\* off if the displayed alert has priority CRITICAL or HIGH (0 or 1), and the
\* green LED is on and the red LED off otherwise.
C30_LedFollowsPriority ==
    rx.currentScreen = "SCREEN_ALERT" =>
        IF alertPriority[rx.lastAlertIndex + 1] <= 1
        THEN rx.ledRed /\ ~rx.ledGreen
        ELSE rx.ledGreen /\ ~rx.ledRed


\* A payload with a comma whose ID substring is made of letters only.
LetterId(raw) ==
    /\ HasComma(raw)
    /\ IdText(raw) # <<>>
    /\ \A i \in 1..Len(IdText(raw)) :
          \/ Ord(IdText(raw)[i]) \in Ord("a")..Ord("z")
          \/ Ord(IdText(raw)[i]) \in Ord("A")..Ord("Z")

\* C31: when an iteration that reads the radio finds a payload whose ID
\* substring is made of letters, the packet is accepted with deviceId 0, a
\* value outside 1..999, and is shown and recorded like any packet: the alert
\* screen shows device 0 with the decoded code and the newest history record
\* holds them.
C31_PermissiveDeviceId ==
    (rxIn.parsed /\ LetterId(rxIn.radio)) =>
        /\ rxOut.alert.ok
        /\ rxOut.alert.deviceId = 0
        /\ rxOut.alert.deviceId \notin 1..999
        /\ rxOut.alert.alertIndex = Ord(CodeText(rxIn.radio)[1]) - Ord("A")
        /\ rx.currentScreen = "SCREEN_ALERT"
        /\ rx.lastDeviceId = 0
        /\ rx.lastAlertIndex = rxOut.alert.alertIndex
        /\ rx.historyCount >= 1
        /\ Newest(rx) = [deviceId |-> 0,
                         alertIndex |-> rxOut.alert.alertIndex,
                         rssi |-> rxOut.alert.rssi]

\* "TXabc,A" has been received and is shown as alert 0 of device 0.
C31_Witness ==
    /\ rxIn.parsed
    /\ rxIn.radio = <<"T", "X", "a", "b", "c", ",", "A">>
    /\ rxOut.alert.ok
    /\ rx.currentScreen = "SCREEN_ALERT"
    /\ rx.lastDeviceId = 0
    /\ rx.lastAlertIndex = 0
    /\ Newest(rx).deviceId = 0
    /\ rx.totalAlertsReceived = 2


\* The radio decoder has answered for an ID and a catalog code in one of the
\* six spellings.
RadioPairDecoded == codec.pc = "radio" /\ codec.in.kind = "pair"

\* What the radio decoder answers for the same ID and code spelled
\* "TX" + id + "," + upper-case letter.
CanonicalDecode(in) == parseLoRaPacket(PairText(TRUE, in.id, CodeAs("upper", in.k)), 0)

\* C32 as stated: for every ID substring and every code k in 0..14, the six
\* spellings (with or without "TX"; upper-case letter, lower-case letter,
\* decimal number) are all accepted with the same deviceId and with
\* alertIndex k.
C32_SpellingIndependent ==
    RadioPairDecoded =>
        /\ codec.out.ok
        /\ codec.out.alertIndex = codec.in.k
        /\ codec.out.deviceId = CanonicalDecode(codec.in).deviceId

\* C32 as the code has it: the same, for ID substrings that do not themselves
\* begin with "TX"; the deviceId is then the number the ID substring begins
\* with.
C32_SpellingIndependentOfPlainId ==
    (RadioPairDecoded /\ ~StartsWith(codec.in.id, <<"T", "X">>)) =>
        /\ codec.out.ok
        /\ codec.out.alertIndex = codec.in.k
        /\ codec.out.deviceId = CanonicalDecode(codec.in).deviceId
        /\ codec.out.deviceId = ToInt(codec.in.id)

\* "7,o" has been decoded as alert 14 of device 7.
C32_Witness ==
    /\ codec.pc = "radio"
    /\ codec.in.text = <<"7", ",", "o">>
    /\ codec.in.k = ALERT_COUNT - 1
    /\ codec.out = [ok |-> TRUE, deviceId |-> 7, alertIndex |-> ALERT_COUNT - 1, rssi |-> -80]


\* The debug decoder has answered for a text "<id>,<code>" without prefix.
SerialPairDecoded ==
    /\ codec.pc = "serial"
    /\ codec.in.kind \in {"pair", "stray"}
    /\ ~codec.in.prefix
    /\ ~StartsWith(codec.in.id, <<"T", "X">>)

\* Two decoders agree: both reject, or both accept with the same deviceId and
\* alertIndex.
SameOutcome(a, b) ==
    /\ a.ok = b.ok
    /\ a.ok => (a.deviceId = b.deviceId /\ a.alertIndex = b.alertIndex)

\* The number the code after the comma stands for.
CodeValue(text) == ParseAlertPart(Trim(CodeText(text)))

\* C33 as stated: for every text "<deviceId>,<code>" the debug decoder and
\* the radio decoder agree, also for codes outside 0..14.
C33_DebugMirrorsRadio ==
    SerialPairDecoded => SameOutcome(codec.out, parseLoRaPacket(codec.in.text, 0))

\* C33 as the code has it: the two decoders agree when the code stands for a
\* value within 0..14; when it stands for a value outside 0..14 the radio
\* decoder accepts the text as the last catalog entry and the debug decoder
\* rejects it.
C33_DebugMirrorsRadioInCatalog ==
    SerialPairDecoded =>
        IF CodeValue(codec.in.text) \in 0..(ALERT_COUNT - 1)
        THEN /\ SameOutcome(codec.out, parseLoRaPacket(codec.in.text, 0))
             /\ codec.out.ok
             /\ codec.out.alertIndex = CodeValue(codec.in.text)
        ELSE /\ ~codec.out.ok
             /\ parseLoRaPacket(codec.in.text, 0).ok
             /\ parseLoRaPacket(codec.in.text, 0).alertIndex = ALERT_COUNT - 1
             /\ parseLoRaPacket(codec.in.text, 0).deviceId = ToInt(codec.in.id)

\* "7,99" typed on the debug port has been rejected.
C33_Witness ==
    /\ codec.pc = "serial"
    /\ codec.in.text = <<"7", ",", "9", "9">>
    /\ ~codec.out.ok
    /\ parseLoRaPacket(codec.in.text, 0).alertIndex = ALERT_COUNT - 1


\* C34: a letter 'A'..'O' in either case typed alone on the debug port raises
\* the alert of index letter - 'A' from device 1, and a single digit raises
\* index digit - 1, '0' index 9, from device 1.
C34_DebugShortcuts ==
    (codec.pc = "serial" /\ codec.in.kind = "key") =>
        /\ codec.in.form \in {"upper", "lower"} =>
              /\ codec.out.ok
              /\ codec.out.deviceId = 1
              /\ codec.out.alertIndex = codec.in.k
        /\ codec.in.form = "digit" =>
              /\ codec.out.ok
              /\ codec.out.deviceId = 1
              /\ codec.out.alertIndex = IF codec.in.k = 0 THEN 9 ELSE codec.in.k - 1


\* C35: a step in which the receiver restarts, by a power cycle or by the
\* restart a POST /save with an ssid ends with, leaves in storedSSID and
\* storedPassword the values last saved (those just posted, otherwise those
\* the Preferences held), with the boot screen, an empty history,
\* historyCount and totalAlertsReceived 0, the portal inactive and no button
\* press in progress.
C35_OnlyCredentialsSurvive ==
    [][(RxPowerCycle \/ rxOut'.restarted) =>
          /\ nvs' = IF rxOut'.restarted
                    THEN [ssid |-> rxIn'.http.ssid, password |-> rxIn'.http.password]
                    ELSE nvs
          /\ rx'.storedSSID = nvs'.ssid
          /\ rx'.storedPassword = nvs'.password
          /\ rx'.currentScreen = "SCREEN_BOOT"
          /\ rx'.bootElapsed = 0
          /\ rx'.historyCount = 0
          /\ rx'.totalAlertsReceived = 0
          /\ \A i \in 1..HISTORY_MAX_ITEMS : rx'.alertHistory[i] = EmptyRecord
          /\ ~rx'.portalActive
          /\ ~rx'.buttonPressed
          /\ rx'.wifiConnected => rx'.storedSSID # ""]_vars

\* The receiver has restarted on the posted credentials, connected, with
\* nothing else kept.
C35_Witness ==
    /\ rxOut.restarted
    /\ nvs = [ssid |-> "Home", password |-> "secret"]
    /\ rx.storedSSID = "Home"
    /\ rx.storedPassword = "secret"
    /\ rx.currentScreen = "SCREEN_BOOT"
    /\ rx.historyCount = 0
    /\ rx.totalAlertsReceived = 0
    /\ ~rx.portalActive
    /\ rx.wifiConnected


\* C36: history records are created only by a decode.  An iteration that
\* decodes a packet adds exactly one record; any other step that is not a
\* restart leaves the history, historyCount and totalAlertsReceived as they
\* were, whatever the button, the timers and the portal do; and historyCount
\* is always min(totalAlertsReceived, HISTORY_MAX_ITEMS).
C36_OneRecordPerDecode ==
    [][/\ rx'.currentScreen # "SCREEN_BOOT" =>
             IF rxOut'.alert.ok
             THEN rx'.totalAlertsReceived = rx.totalAlertsReceived + 1
             ELSE /\ rx'.totalAlertsReceived = rx.totalAlertsReceived
                  /\ rx'.historyCount = rx.historyCount
                  /\ rx'.alertHistory = rx.alertHistory
       /\ rx'.historyCount = IF rx'.totalAlertsReceived < HISTORY_MAX_ITEMS
                             THEN rx'.totalAlertsReceived ELSE HISTORY_MAX_ITEMS]_vars


\* C37: whenever the history holds a record, its newest record is the alert
\* displayed now or last: (lastDeviceId, lastAlertIndex, lastRssi).
C37_NewestIsDisplayed ==
    rx.historyCount > 0 =>
        Newest(rx) = [deviceId |-> rx.lastDeviceId,
                      alertIndex |-> rx.lastAlertIndex,
                      rssi |-> rx.lastRssi]

\* The second alert, typed on the debug port, has replaced the first on
\* screen and is the newest record, and the receiver is back in Idle.
C37_Witness ==
    /\ rx.currentScreen = "SCREEN_IDLE"
    /\ rx.historyCount = 2
    /\ rx.alertHistory[1] = [deviceId |-> 3, alertIndex |-> 0, rssi |-> -80]
    /\ rx.alertHistory[2] = [deviceId |-> 1, alertIndex |-> 2, rssi |-> -65]
    /\ rx.lastDeviceId = 1
    /\ rx.lastAlertIndex = 2
    /\ rx.lastRssi = -65


\* C38: a POST /save with an empty ssid reaching the active portal is answered
\* 400; the credentials in memory and in the Preferences stay as they were,
\* the device does not restart, and the portal stays active with its timer
\* running on (unless its timeout expires in the same iteration).
C38_EmptySsidRejected ==
    [][(/\ rx.portalActive
        /\ rxIn'.http.method = "POST"
        /\ rxIn'.http.ssid = "") =>
          /\ rxOut'.http = 400
          /\ nvs' = nvs
          /\ rx'.storedSSID = rx.storedSSID
          /\ rx'.storedPassword = rx.storedPassword
          /\ ~rxOut'.restarted
          /\ rx'.currentScreen = rx.currentScreen
          /\ rx.portalElapsed < WIFI_PORTAL_TIMEOUT =>
                (rx'.portalActive /\ rx'.portalElapsed = rx.portalElapsed)]_vars

\* A POST without ssid has been answered 400 at the portal of a receiver that
\* keeps its stored credentials.
C38_Witness ==
    /\ rxIn.http = [method |-> "POST", ssid |-> "", password |-> "secret"]
    /\ rxOut.http = 400
    /\ ~rxOut.restarted
    /\ rx.portalActive
    /\ nvs = [ssid |-> "Cafe", password |-> "old"]
    /\ rx.storedSSID = "Cafe"
    /\ rx.storedPassword = "old"

\* ---------------------------------------------------------------------------
\* C39 (safety, ESP32-S3 transmitter): once the radio has sent, the success
\* flag shown in Result always equals the outcome of the most recent radio
\* send, the automatic landslide alert included: every Result screen drawn
\* shows success only if that send succeeded, the flag held while Result is
\* showing says the same, and loop() dismisses Result by its success timer
\* only after a send that succeeded.
\* ---------------------------------------------------------------------------
C39_ResultShowsLastSend ==
    txIo.lastSend # "none" =>
       /\ \A i \in 1..Len(txIo.drawn) :
             txIo.drawn[i].success <=> (txIo.drawn[i].send = "ok")
       /\ tx.currentScreen = "SCREEN_RESULT" =>
             (tx.lastTransmitSuccess <=> (txIo.lastSend = "ok"))
       /\ txIo.dismissed => txIo.lastSend = "ok"

\* ---------------------------------------------------------------------------
\* C40 (refinement): the ILI9488 receiver variant's parser agrees with the
\* rx_pro parser on every payload: both reject it, or both accept it with the
\* same deviceId and alert code; payloads without the "TX" prefix, with
\* lower-case code letters and with codes outside 0..14 are included.
\* ---------------------------------------------------------------------------
C40_IliAgreesWithRxPro ==
    codec.pc = "ili" =>
       SameOutcome(codec.out, parseLoRaPacket(codec.in.text, codec.out.rssi))

====
